---- MODULE Spec2Model ----
(***************************************************************************)
(* VeriBond semantic agent: the SQLite store (store.py), the relation      *)
(* discovery engine (pipeline/relations.py) and the pipeline driver        *)
(* (pipeline/run_full.py), as a state machine.                             *)
(*                                                                         *)
(* A table is a sequence of rows in rowid order (the order a full scan     *)
(* returns).  Python's None is the string "NONE"; a confidence score is an *)
(* integer number of hundredths (0.95 is 95).                              *)
(***************************************************************************)
EXTENDS Integers, Sequences, FiniteSets, TLC

VARIABLES
    dbExists,         \* the SQLite file exists (its schema was created with it)
    markets,          \* table markets
    clusters,         \* table clusters
    market_clusters,  \* table market_clusters
    relations,        \* table relations
    last,             \* the last store call: its name, arguments' sizes, outcome
    calls,            \* number of store calls made so far
    dargs,            \* run_discover_relations: the arguments of the current call
    dpc,              \* run_discover_relations: "idle", "running", "returned", "raised"
    tasks,            \* run_discover_relations: tasks, the (cluster, m_list) pairs
    fut,              \* run_discover_relations: futures, one per task
    results,          \* run_discover_relations: results, cluster_id -> count
    failed_clusters,  \* run_discover_relations: failed_clusters
    completed,        \* run_discover_relations: completed
    settings,         \* get_settings(): the configuration the stages read
    csvExists,        \* the input CSV file exists
    chroma,           \* the Chroma directory: it exists, its collection, the ids embedded
    ppc,              \* run_full_pipeline: "idle", the running stage, "between", "returned", "raised"
    started,          \* run_full_pipeline: the stages started so far, in order
    outcomes,         \* run_full_pipeline: "returned" or "raised" for each finished stage
    result,           \* run_full_pipeline: result, <<>> for None
    requests,         \* chat.completions.create calls made so far
    ret               \* what the last run_cluster_and_store or run_label_clusters call
                      \* returned, NoReturn if it raised or none was made

storeVars == <<dbExists, markets, clusters, market_clusters, relations>>

discVars == <<dargs, dpc, tasks, fut, results, failed_clusters, completed>>

pipeVars == <<settings, csvExists, chroma, ppc, started, outcomes, result, ret>>

vars == <<dbExists, markets, clusters, market_clusters, relations, last, calls,
          dargs, dpc, tasks, fut, results, failed_clusters, completed,
          settings, csvExists, chroma, ppc, started, outcomes, result, requests, ret>>

(***************************************************************************)
(* Bounds of the model.                                                    *)
(***************************************************************************)
MaxRelLen == 3     \* longest relation list handed to write_relations_for_cluster
MaxBatch == 2      \* longest market list handed to write_markets
MaxCalls == 2      \* store calls in one run of SpecStore
MaxRespLen == 2    \* longest relations list in a collaborator response
MaxEvalRows == 4   \* most rows of the relations table of an evaluated store
MaxLabeled == 2     \* most clusters one run_label_clusters call labels

(***************************************************************************)
(* Values.                                                                 *)
(***************************************************************************)
MarketIds == {"m1", "m2", "m3", "m4"}

ClusterIds == {"c_0", "c_1"}

NoCall == [op |-> "none", cluster_id |-> "NONE", n_in |-> 0, n_written |-> 0, err |-> "NONE"]

Call(op, cid, nin, nw, err) ==
    [op |-> op, cluster_id |-> cid, n_in |-> nin, n_written |-> nw, err |-> err]

\* Market (models/market.py): the fields the store and the pipeline read.
Mkt(id, q, o) == [id |-> id, question |-> q, resolved_outcome |-> o]

\* MarketRelation (models/market.py).
Rel(i, j, qi, qj, same, conf, why) ==
    [market_id_i |-> i, market_id_j |-> j, question_i |-> qi, question_j |-> qj,
     is_same_outcome |-> same, confidence_score |-> conf, rationale |-> why]

\* Cluster (models/market.py).
Clu(cid, mids, cat, why) ==
    [cluster_id |-> cid, market_ids |-> mids, category |-> cat, label_rationale |-> why]

\* All sequences over S of length lo..hi.
SeqsOf(S, lo, hi) == UNION {[1..n -> S] : n \in lo..hi}

(***************************************************************************)
(* Inputs the store's callers hand to it.                                  *)
(***************************************************************************)
\* m1 is re-ingested with a changed question and outcome.
MarketPool ==
    { Mkt("m1", "q1", "YES"), Mkt("m1", "q1b", "NO"), Mkt("m2", "q2", "NONE") }

MarketBatches == SeqsOf(MarketPool, 0, MaxBatch)

\* Two proposals for the pair (m1, m2) that differ in every other field, and
\* one for (m2, m1).
RelPool ==
    { Rel("m1", "m2", "q1", "q2", TRUE, 95, "first"),
      Rel("m1", "m2", "q1b", "q2", FALSE, 30, "second"),
      Rel("m2", "m1", "q2", "q1", TRUE, 60, "") }

RelLists == SeqsOf(RelPool, 0, MaxRelLen)

ClusterLists ==
    { <<>>,
      << Clu("c_0", <<"m1", "m2">>, "other", "NONE") >>,
      << Clu("c_0", <<"m1">>, "politics", "why"), Clu("c_1", <<"m2">>, "other", "NONE") >>,
      << Clu("c_0", <<"m1", "m2">>, "other", "NONE"), Clu("c_1", <<"m2">>, "other", "NONE") >>,
      << Clu("c_1", <<"m2", "m1">>, "other", "NONE"), Clu("c_1", <<>>, "sports", "NONE") >> }

\* A labels mapping: cluster id -> <<category, rationale>>.
LabelMaps ==
    { <<>>,
      [c \in {"c_0"} |-> <<"politics", "why">>],
      [c \in {"c_0", "c_1"} |-> <<"sports", "NONE">>],
      [c \in {"c_9"} |-> <<"crypto", "NONE">>] }

(***************************************************************************)
(* store.py                                                                *)
(***************************************************************************)
\* x or "": None becomes the empty string.
OrEmpty(x) == IF x = "NONE" THEN "" ELSE x

\* A bug: the WHERE clause is lost and every cluster's rows are deleted.
DeleteEveryCluster(t, cid) == <<>>

\* DELETE FROM t WHERE cluster_id = cid.
DeleteCluster(t, cid) == SelectSeq(t, LAMBDA r : r.cluster_id # cid)

\* INSERT OR REPLACE INTO markets: the row with the same id is deleted and the
\* new row gets a fresh rowid.
ReplaceMarket(t, m) ==
    Append(SelectSeq(t, LAMBDA r : r.id # m.id),
           [id |-> m.id, question |-> m.question, resolved_outcome |-> m.resolved_outcome])

RECURSIVE ReplaceMarkets(_, _)
ReplaceMarkets(t, ms) ==
    IF ms = <<>> THEN t ELSE ReplaceMarkets(ReplaceMarket(t, Head(ms)), Tail(ms))

\* INSERT OR REPLACE INTO clusters (cluster_id is the primary key).
ReplaceClusterRow(t, c) ==
    Append(SelectSeq(t, LAMBDA r : r.cluster_id # c.cluster_id),
           [cluster_id |-> c.cluster_id, category |-> c.category,
            label_rationale |-> OrEmpty(c.label_rationale)])

\* A bug: market_id is no key of market_clusters; the insert adds a row.
InsertAssignment(t, mid, cid) ==
    Append(t, [market_id |-> mid, cluster_id |-> cid])

\* INSERT OR REPLACE INTO market_clusters (market_id is the primary key).
ReplaceAssignment(t, mid, cid) ==
    Append(SelectSeq(t, LAMBDA r : r.market_id # mid),
           [market_id |-> mid, cluster_id |-> cid])

RECURSIVE ReplaceAssignments(_, _, _)
ReplaceAssignments(t, mids, cid) ==
    IF mids = <<>> THEN t
    ELSE ReplaceAssignments(ReplaceAssignment(t, Head(mids), cid), Tail(mids), cid)

\* The loop of write_clusters over the clusters: <<clusters, market_clusters>>.
RECURSIVE InsertClusters(_, _, _)
InsertClusters(ct, at, cs) ==
    IF cs = <<>> THEN <<ct, at>>
    ELSE InsertClusters(ReplaceClusterRow(ct, Head(cs)),
                        ReplaceAssignments(at, Head(cs).market_ids, Head(cs).cluster_id),
                        Tail(cs))

\* The key write_relations_for_cluster deduplicates by.
PairKey(r) == <<r.market_id_i, r.market_id_j>>

\* A bug: the guard "if key not in seen" is lost, so the dict keeps each key's
\* first position with its last value.
DedupKeepLast(rels) ==
    LET F[n \in 0..Len(rels)] ==
            IF n = 0 THEN <<>>
            ELSE IF \E k \in 1..Len(F[n-1]) : PairKey(F[n-1][k]) = PairKey(rels[n])
                 THEN [k \in 1..Len(F[n-1]) |->
                          IF PairKey(F[n-1][k]) = PairKey(rels[n]) THEN rels[n] ELSE F[n-1][k]]
                 ELSE Append(F[n-1], rels[n])
    IN  F[Len(rels)]

\* A bug: no deduplication at all.
DedupNone(rels) == rels

\* seen = {}; for r in relations: if key not in seen: seen[key] = r;
\* list(seen.values()).
Dedup(rels) ==
    LET F[n \in 0..Len(rels)] ==
            IF n = 0 THEN <<>>
            ELSE IF \E k \in 1..Len(F[n-1]) : PairKey(F[n-1][k]) = PairKey(rels[n])
                 THEN F[n-1]
                 ELSE Append(F[n-1], rels[n])
    IN  F[Len(rels)]

\* The tuple write_relations_for_cluster inserts for one relation.
RelRow(cid, r) ==
    [cluster_id |-> cid, market_id_i |-> r.market_id_i, market_id_j |-> r.market_id_j,
     question_i |-> r.question_i, question_j |-> r.question_j,
     is_same_outcome |-> IF r.is_same_outcome THEN 1 ELSE 0,
     confidence_score |-> r.confidence_score, rationale |-> r.rationale]

\* UNIQUE(cluster_id, market_id_i, market_id_j).
RowKey(row) == <<row.cluster_id, row.market_id_i, row.market_id_j>>

\* executemany(INSERT INTO relations ...): the table after the inserts, or
\* "IntegrityError" when a row breaks the UNIQUE constraint.
RECURSIVE InsertRows(_, _)
InsertRows(t, rows) ==
    IF rows = <<>> THEN t
    ELSE IF \E k \in 1..Len(t) : RowKey(t[k]) = RowKey(Head(rows))
         THEN "IntegrityError"
         ELSE InsertRows(Append(t, Head(rows)), Tail(rows))

\* DELETE FROM relations WHERE cluster_id = ?; dedup; executemany(INSERT).
RelationsAfterWrite(t, cid, rels) ==
    LET kept == DeleteCluster(t, cid)
        dd   == Dedup(rels)
    IN  IF rels = <<>> THEN kept
        ELSE InsertRows(kept, [k \in 1..Len(dd) |-> RelRow(cid, dd[k])])

init_schema ==
    /\ dbExists' = TRUE
    /\ UNCHANGED <<markets, clusters, market_clusters, relations>>
    /\ last' = Call("init_schema", "NONE", 0, 0, "NONE")

\* A bug: the reset also empties the markets table.
clear_everything ==
    /\ IF ~dbExists
       THEN UNCHANGED storeVars
       ELSE /\ relations' = <<>>
            /\ market_clusters' = <<>>
            /\ clusters' = <<>>
            /\ markets' = <<>>
            /\ UNCHANGED dbExists
    /\ last' = Call("clear_derived_data", "NONE", 0, 0, "NONE")

clear_derived_data ==
    /\ IF ~dbExists
       THEN UNCHANGED storeVars
       ELSE /\ relations' = <<>>
            /\ market_clusters' = <<>>
            /\ clusters' = <<>>
            /\ UNCHANGED <<dbExists, markets>>
    /\ last' = Call("clear_derived_data", "NONE", 0, 0, "NONE")

write_markets(ms) ==
    /\ IF ms = <<>>
       THEN UNCHANGED storeVars
       ELSE /\ dbExists' = TRUE
            /\ markets' = ReplaceMarkets(markets, ms)
            /\ UNCHANGED <<clusters, market_clusters, relations>>
    /\ last' = Call("write_markets", "NONE", Len(ms), 0, "NONE")

\* A bug: write_clusters also empties the markets table.
write_clusters_clears_markets(cs, ioFail) ==
    IF cs = <<>>
    THEN /\ UNCHANGED storeVars
         /\ last' = Call("write_clusters", "NONE", Len(cs), 0, "NONE")
    ELSE IF ioFail
    THEN /\ dbExists' = TRUE
         /\ UNCHANGED <<markets, clusters, market_clusters, relations>>
         /\ last' = Call("write_clusters", "NONE", Len(cs), 0, "OperationalError")
    ELSE LET res == InsertClusters(<<>>, <<>>, cs)
         IN  /\ dbExists' = TRUE
             /\ clusters' = res[1]
             /\ market_clusters' = res[2]
             /\ markets' = <<>>
             /\ UNCHANGED relations
             /\ last' = Call("write_clusters", "NONE", Len(cs), 0, "NONE")

\* write_clusters; an empty list returns before the file is touched.  ioFail:
\* sqlite raises after init_schema and before the commit; the connection is
\* closed without a commit, which rolls the DELETEs and INSERTs back.
write_clusters(cs, ioFail) ==
    IF cs = <<>>
    THEN /\ UNCHANGED storeVars
         /\ last' = Call("write_clusters", "NONE", Len(cs), 0, "NONE")
    ELSE IF ioFail
    THEN /\ dbExists' = TRUE
         /\ UNCHANGED <<markets, clusters, market_clusters, relations>>
         /\ last' = Call("write_clusters", "NONE", Len(cs), 0, "OperationalError")
    ELSE LET res == InsertClusters(<<>>, <<>>, cs)
         IN  /\ dbExists' = TRUE
             /\ clusters' = res[1]
             /\ market_clusters' = res[2]
             /\ UNCHANGED <<markets, relations>>
             /\ last' = Call("write_clusters", "NONE", Len(cs), 0, "NONE")

\* A bug: an upsert, a label for an id that has no row adds the row.
UpdateLabelsUpsert(t, labels) ==
    LET known   == {t[k].cluster_id : k \in 1..Len(t)}
        updated == [k \in 1..Len(t) |->
                       IF t[k].cluster_id \in DOMAIN labels
                       THEN [t[k] EXCEPT !.category = labels[t[k].cluster_id][1],
                                         !.label_rationale = OrEmpty(labels[t[k].cluster_id][2])]
                       ELSE t[k]]
        RECURSIVE Added(_)
        Added(ids) ==
            IF ids = {} THEN <<>>
            ELSE LET cid == CHOOSE x \in ids : TRUE
                 IN  <<[cluster_id |-> cid, category |-> labels[cid][1],
                        label_rationale |-> OrEmpty(labels[cid][2])]>> \o Added(ids \ {cid})
    IN  updated \o Added(DOMAIN labels \ known)

\* UPDATE clusters SET category = ?, label_rationale = ? WHERE cluster_id = ?
UpdateLabels(t, labels) ==
    [k \in 1..Len(t) |->
        IF t[k].cluster_id \in DOMAIN labels
        THEN [t[k] EXCEPT !.category = labels[t[k].cluster_id][1],
                          !.label_rationale = OrEmpty(labels[t[k].cluster_id][2])]
        ELSE t[k]]

update_cluster_labels(labels) ==
    /\ IF DOMAIN labels = {} \/ ~dbExists
       THEN UNCHANGED storeVars
       ELSE /\ clusters' = UpdateLabels(clusters, labels)
            /\ UNCHANGED <<dbExists, markets, market_clusters, relations>>
    /\ last' = Call("update_cluster_labels", "NONE", Cardinality(DOMAIN labels), 0, "NONE")

\* ioFail: sqlite raises (locked database, full disk) before the commit; the
\* connection is closed without a commit, which rolls the transaction back.
write_relations_for_cluster(cid, rels, ioFail) ==
    IF ~dbExists
    THEN /\ UNCHANGED storeVars
         /\ last' = Call("write_relations_for_cluster", cid, Len(rels), 0, "NONE")
    ELSE IF ioFail
    THEN /\ UNCHANGED storeVars
         /\ last' = Call("write_relations_for_cluster", cid, Len(rels), 0, "OperationalError")
    ELSE LET after == RelationsAfterWrite(relations, cid, rels)
         IN  IF after = "IntegrityError"
             THEN /\ UNCHANGED storeVars
                  /\ last' = Call("write_relations_for_cluster", cid, Len(rels), 0,
                                  "IntegrityError")
             ELSE /\ relations' = after
                  /\ UNCHANGED <<dbExists, markets, clusters, market_clusters>>
                  /\ last' = Call("write_relations_for_cluster", cid, Len(rels),
                                  IF rels = <<>> THEN 0 ELSE Len(Dedup(rels)), "NONE")

(***************************************************************************)
(* pipeline/relations.py                                                   *)
(***************************************************************************)
NoArgs ==
    [openai_api_key |-> FALSE, max_clusters |-> 0, max_markets_per_cluster |-> 0,
     max_relations_per_cluster |-> 0, only_labeled |-> FALSE, only_resolved |-> FALSE,
     skip_clusters_with_relations |-> FALSE, parallel_workers |-> 0]

NoResults == [c \in {} |-> 0]

\* No call of run_discover_relations has been made.
DiscoverIdle ==
    /\ dargs = NoArgs
    /\ dpc = "idle"
    /\ tasks = <<>>
    /\ fut = <<>>
    /\ results = NoResults
    /\ failed_clusters = <<>>
    /\ completed = 0

NoSettings == [openai_api_key |-> FALSE]

NoChroma == [path |-> FALSE, collection |-> FALSE, ids |-> {}]

\* run_full_pipeline is not called.
\* The labels dict with no entry.
NoLabels == [cid \in {} |-> <<"other", "NONE">>]

\* What a stage call returned: the function, and its list of clusters or its
\* labels dict.
Returned(by, cs, labels) == [by |-> by, clusters |-> cs, labels |-> labels]

\* No stage call has returned a value.
NoReturn == Returned("NONE", <<>>, NoLabels)

PipelineIdle ==
    /\ settings = NoSettings
    /\ csvExists = FALSE
    /\ chroma = NoChroma
    /\ ppc = "idle"
    /\ started = <<>>
    /\ outcomes = <<>>
    /\ result = <<>>
    /\ ret = NoReturn

\* read_markets: a resolved_outcome other than YES and NO reads as None.
read_markets ==
    IF ~dbExists THEN <<>>
    ELSE [k \in 1..Len(markets) |->
            Mkt(markets[k].id, markets[k].question,
                IF markets[k].resolved_outcome \in {"YES", "NO"}
                THEN markets[k].resolved_outcome ELSE "NONE")]

\* read_clusters: the clusters in table order, each with its assigned market
\* ids in table order.
read_clusters ==
    IF ~dbExists THEN <<>>
    ELSE [k \in 1..Len(clusters) |->
            LET cid  == clusters[k].cluster_id
                mine == SelectSeq(market_clusters, LAMBDA a : a.cluster_id = cid)
            IN  Clu(cid,
                    [n \in 1..Len(mine) |-> mine[n].market_id],
                    IF clusters[k].category = "" THEN "other" ELSE clusters[k].category,
                    IF clusters[k].label_rationale = "" THEN "NONE"
                    ELSE clusters[k].label_rationale)]

\* A bug: no cluster is reported as having relations.
get_cluster_ids_with_relations_none == {}

\* SELECT DISTINCT cluster_id FROM relations.
get_cluster_ids_with_relations ==
    IF ~dbExists THEN {} ELSE {relations[k].cluster_id : k \in 1..Len(relations)}

\* s[:n]
Take(s, n) == IF Len(s) > n THEN SubSeq(s, 1, n) ELSE s

\* A bug: parallel_workers is used as given.
ClampWorkersNone(w) == w

\* max(1, min(parallel_workers, 20))
ClampWorkers(w) ==
    LET lo == IF w < 20 THEN w ELSE 20
    IN  IF lo > 1 THEN lo ELSE 1

\* The market of all_markets with this id (markets_by_id.get), or "NONE".
MarketById(all_markets, mid) ==
    LET hits == SelectSeq(all_markets, LAMBDA m : m.id = mid)
    IN  IF hits = <<>> THEN "NONE" ELSE hits[Len(hits)]

\* A bug: only_resolved is ignored.
MemberMarketsAnyOutcome(c, all_markets, only_resolved) ==
    LET found == SelectSeq(c.market_ids,
                           LAMBDA mid : \E k \in 1..Len(all_markets) : all_markets[k].id = mid)
    IN  [k \in 1..Len(found) |-> MarketById(all_markets, found[k])]

\* The m_list built for one cluster, before its truncation.
MemberMarkets(c, all_markets, only_resolved) ==
    LET found == SelectSeq(c.market_ids,
                           LAMBDA mid : \E k \in 1..Len(all_markets) : all_markets[k].id = mid)
        ms    == [k \in 1..Len(found) |-> MarketById(all_markets, found[k])]
    IN  SelectSeq(ms, LAMBDA m : ~only_resolved \/ m.resolved_outcome \in {"YES", "NO"})

\* A bug: skip_clusters_with_relations is ignored.
SelectedClustersNoSkip(args) ==
    LET all     == read_clusters
        labeled == IF args.only_labeled
                   THEN SelectSeq(all, LAMBDA c : c.category # "other")
                   ELSE all
    IN  Take(labeled, args.max_clusters)

\* The clusters run_discover_relations keeps: labeled, not done, the first
\* max_clusters.
SelectedClusters(args) ==
    LET all     == read_clusters
        labeled == IF args.only_labeled
                   THEN SelectSeq(all, LAMBDA c : c.category # "other")
                   ELSE all
        done    == get_cluster_ids_with_relations
        todo    == IF args.skip_clusters_with_relations
                   THEN SelectSeq(labeled, LAMBDA c : c.cluster_id \notin done)
                   ELSE labeled
    IN  Take(todo, args.max_clusters)

\* tasks: one per selected cluster with at least two member markets.
BuildTasks(args) ==
    LET cs   == SelectedClusters(args)
        all  == read_markets
        full == [k \in 1..Len(cs) |->
                    [cluster_id |-> cs[k].cluster_id, category |-> cs[k].category,
                     m_list |-> MemberMarkets(cs[k], all, args.only_resolved)]]
        kept == SelectSeq(full, LAMBDA t : Len(t.m_list) >= 2)
    IN  [k \in 1..Len(kept) |->
            [kept[k] EXCEPT !.m_list = Take(@, args.max_markets_per_cluster)]]

\* The collaborator's answers: the call raises, the content is no JSON object,
\* or it is a JSON object whose relations are the items.
Response(kind, items) == [kind |-> kind, items |-> items]

\* confidence_score: float = Field(..., ge=0.0, le=1.0)
ItemValid(r) == r.confidence_score >= 0 /\ r.confidence_score <= 100

\* A bug: the response is not trimmed to max_relations.
ParseResponseUntrimmed(resp, max_relations) ==
    IF resp.kind # "json" THEN <<>>
    ELSE IF \E k \in 1..Len(resp.items) : ~ItemValid(resp.items[k]) THEN <<>>
    ELSE resp.items

\* discover_relations_for_cluster from the response on: the relations it
\* returns.
ParseResponse(resp, max_relations) ==
    IF resp.kind # "json" THEN <<>>
    ELSE IF \E k \in 1..Len(resp.items) : ~ItemValid(resp.items[k]) THEN <<>>
    ELSE Take(resp.items, max_relations)

\* What the collaborator answered, as discover_relations_for_cluster tells the
\* answers apart.
AnswerKind(resp) ==
    IF resp.kind # "json" THEN resp.kind
    ELSE IF \E k \in 1..Len(resp.items) : ~ItemValid(resp.items[k]) THEN "invalid"
    ELSE "valid"

\* A future: pending, running (the request is out), done (with the task's
\* return value: ok is "relations is not None"), handled (taken by the
\* as_completed loop).  answer and write_err keep what the collaborator
\* answered and what the store write raised.
Future(st, ok, rels, answer, werr) ==
    [st |-> st, ok |-> ok, relations |-> rels, answer |-> answer, write_err |-> werr]

\* run_discover_relations up to the submission of the tasks.
run_discover_relations(args) ==
    /\ dpc = "idle"
    /\ dargs' = [args EXCEPT !.parallel_workers = ClampWorkers(@)]
    /\ results' = NoResults
    /\ failed_clusters' = <<>>
    /\ completed' = 0
    /\ IF ~args.openai_api_key
       THEN /\ dpc' = "raised"
            /\ tasks' = <<>>
            /\ fut' = <<>>
            /\ UNCHANGED last
       ELSE IF read_clusters = <<>>
       THEN /\ dpc' = "returned"
            /\ tasks' = <<>>
            /\ fut' = <<>>
            /\ last' = Call("read_clusters", "NONE", 0, 0, "NONE")
       ELSE /\ dpc' = "running"
            /\ tasks' = BuildTasks(args)
            /\ fut' = [k \in 1..Len(BuildTasks(args)) |->
                          Future("pending", FALSE, <<>>, "NONE", "NONE")]
            /\ last' = Call("read_markets", "NONE", 0, 0, "NONE")
    /\ UNCHANGED <<storeVars, calls, pipeVars, requests>>

Running == {k \in 1..Len(fut) : fut[k].st = "running"}

\* A bug: the store is asked again when a task is taken, and a task whose
\* cluster has relation rows by then is dropped.
worker_start_rechecks(t) ==
    /\ dpc = "running"
    /\ t \in 1..Len(fut)
    /\ fut[t].st = "pending"
    /\ \A k \in 1..(t - 1) : fut[k].st # "pending"
    /\ Cardinality(Running) < dargs.parallel_workers
    /\ LET dropped == /\ dargs.skip_clusters_with_relations
                      /\ tasks[t].cluster_id \in get_cluster_ids_with_relations
       IN  /\ fut' = [fut EXCEPT ![t] = IF dropped
                                        THEN Future("handled", TRUE, <<>>, "NONE", "NONE")
                                        ELSE IF Len(tasks[t].m_list) < 2
                                        THEN Future("done", TRUE, <<>>, "NONE", "NONE")
                                        ELSE Future("running", FALSE, <<>>, "NONE", "NONE")]
           /\ requests' = IF dropped \/ Len(tasks[t].m_list) < 2 THEN requests ELSE requests + 1
    /\ UNCHANGED <<storeVars, last, calls, pipeVars, dargs, dpc, tasks, results, failed_clusters,
                   completed>>

\* A worker thread takes the next work item of the executor's queue and calls
\* _run_task; a task of fewer than two markets returns [] without a request.
worker_start(t) ==
    /\ dpc = "running"
    /\ t \in 1..Len(fut)
    /\ fut[t].st = "pending"
    /\ \A k \in 1..(t - 1) : fut[k].st # "pending"
    /\ Cardinality(Running) < dargs.parallel_workers
    /\ fut' = [fut EXCEPT ![t] = IF Len(tasks[t].m_list) < 2
                                 THEN Future("done", TRUE, <<>>, "NONE", "NONE")
                                 ELSE Future("running", FALSE, <<>>, "NONE", "NONE")]
    /\ requests' = IF Len(tasks[t].m_list) < 2 THEN requests ELSE requests + 1
    /\ UNCHANGED <<storeVars, last, calls, pipeVars, dargs, dpc, tasks, results, failed_clusters,
                   completed>>

\* A bug: the worker thread writes the relations itself before it returns.
worker_finish_writes(t, resp) ==
    /\ dpc = "running"
    /\ t \in 1..Len(fut)
    /\ fut[t].st = "running"
    /\ fut' = [fut EXCEPT ![t] =
                  IF resp.kind = "error"
                  THEN Future("done", FALSE, <<>>, "error", "NONE")
                  ELSE Future("done", TRUE,
                              ParseResponse(resp, dargs.max_relations_per_cluster),
                              AnswerKind(resp), "NONE")]
    /\ IF resp.kind = "error"
       THEN UNCHANGED <<storeVars, last>>
       ELSE write_relations_for_cluster(tasks[t].cluster_id,
                                        ParseResponse(resp, dargs.max_relations_per_cluster),
                                        FALSE)
    /\ UNCHANGED <<calls, pipeVars, requests, dargs, dpc, tasks, results, failed_clusters,
                   completed>>

\* The collaborator answers and _process_one_cluster returns.
worker_finish(t, resp) ==
    /\ dpc = "running"
    /\ t \in 1..Len(fut)
    /\ fut[t].st = "running"
    /\ fut' = [fut EXCEPT ![t] =
                  IF resp.kind = "error"
                  THEN Future("done", FALSE, <<>>, "error", "NONE")
                  ELSE Future("done", TRUE,
                              ParseResponse(resp, dargs.max_relations_per_cluster),
                              AnswerKind(resp), "NONE")]
    /\ UNCHANGED <<storeVars, last, calls, pipeVars, requests, dargs, dpc, tasks, results, failed_clusters,
                   completed>>

\* A bug: results[cid] is set before the write, so a write that raises leaves
\* the cluster in results.
handle_completed_count_first(t, ioFail) ==
    /\ dpc = "running"
    /\ t \in 1..Len(fut)
    /\ fut[t].st = "done"
    /\ completed' = IF fut[t].ok THEN completed + 1 ELSE completed   \* continue skips it
    /\ LET cid == tasks[t].cluster_id
       IN  IF ~fut[t].ok
           THEN /\ failed_clusters' = Append(failed_clusters, cid)
                /\ fut' = [fut EXCEPT ![t].st = "handled"]
                /\ UNCHANGED <<storeVars, last, results>>
           ELSE /\ write_relations_for_cluster(cid, fut[t].relations, ioFail)
                /\ fut' = [fut EXCEPT ![t].st = "handled", ![t].write_err = last'.err]
                /\ results' = [c \in DOMAIN results \cup {cid} |->
                                  IF c = cid THEN Len(fut[t].relations) ELSE results[c]]
                /\ IF last'.err # "NONE"
                   THEN failed_clusters' = Append(failed_clusters, cid)
                   ELSE UNCHANGED failed_clusters
    /\ UNCHANGED <<calls, pipeVars, requests, dargs, dpc, tasks>>

\* A bug: the loop only collects the relations, to be written after it.
handle_completed_batched(t, ioFail) ==
    /\ dpc = "running"
    /\ t \in 1..Len(fut)
    /\ fut[t].st = "done"
    /\ completed' = IF fut[t].ok THEN completed + 1 ELSE completed
    /\ LET cid == tasks[t].cluster_id
       IN  IF ~fut[t].ok
           THEN /\ failed_clusters' = Append(failed_clusters, cid)
                /\ UNCHANGED results
           ELSE /\ results' = [c \in DOMAIN results \cup {cid} |->
                                  IF c = cid THEN Len(fut[t].relations) ELSE results[c]]
                /\ UNCHANGED failed_clusters
    /\ fut' = [fut EXCEPT ![t].st = "handled"]
    /\ UNCHANGED <<storeVars, last, calls, pipeVars, requests, dargs, dpc, tasks>>

\* A bug: every turn of the loop starts the mapping anew, so the mapping
\* returned holds the task taken last only.
handle_completed_last_only(t, ioFail) ==
    /\ dpc = "running"
    /\ t \in 1..Len(fut)
    /\ fut[t].st = "done"
    /\ completed' = IF fut[t].ok THEN completed + 1 ELSE completed
    /\ LET cid == tasks[t].cluster_id
       IN  IF ~fut[t].ok
           THEN /\ failed_clusters' = Append(failed_clusters, cid)
                /\ fut' = [fut EXCEPT ![t].st = "handled"]
                /\ UNCHANGED <<storeVars, last, results>>
           ELSE /\ write_relations_for_cluster(cid, fut[t].relations, ioFail)
                /\ fut' = [fut EXCEPT ![t].st = "handled", ![t].write_err = last'.err]
                /\ IF last'.err # "NONE"
                   THEN /\ failed_clusters' = Append(failed_clusters, cid)
                        /\ UNCHANGED results
                   ELSE /\ results' = [c \in {cid} |-> Len(fut[t].relations)]
                        /\ UNCHANGED failed_clusters
    /\ UNCHANGED <<calls, pipeVars, requests, dargs, dpc, tasks>>

\* One turn of the loop over as_completed(futures).
handle_completed(t, ioFail) ==
    /\ dpc = "running"
    /\ t \in 1..Len(fut)
    /\ fut[t].st = "done"
    /\ completed' = IF fut[t].ok THEN completed + 1 ELSE completed   \* continue skips it
    /\ LET cid == tasks[t].cluster_id
       IN  IF ~fut[t].ok
           THEN /\ failed_clusters' = Append(failed_clusters, cid)
                /\ fut' = [fut EXCEPT ![t].st = "handled"]
                /\ UNCHANGED <<storeVars, last, results>>
           ELSE /\ write_relations_for_cluster(cid, fut[t].relations, ioFail)
                /\ fut' = [fut EXCEPT ![t].st = "handled", ![t].write_err = last'.err]
                /\ IF last'.err # "NONE"
                   THEN /\ failed_clusters' = Append(failed_clusters, cid)
                        /\ UNCHANGED results
                   ELSE /\ results' = [c \in DOMAIN results \cup {cid} |->
                                          IF c = cid THEN Len(fut[t].relations)
                                          ELSE results[c]]
                        /\ UNCHANGED failed_clusters
    /\ UNCHANGED <<calls, pipeVars, requests, dargs, dpc, tasks>>

\* Every future was handled: the executor shuts down and results is returned.
return_results ==
    /\ dpc = "running"
    /\ \A k \in 1..Len(fut) : fut[k].st = "handled"
    /\ dpc' = "returned"
    /\ UNCHANGED <<storeVars, last, calls, pipeVars, requests, dargs, tasks, fut, results, failed_clusters,
                   completed>>

(***************************************************************************)
(* Relation discovery run on a store earlier stages filled.                *)
(***************************************************************************)
\* Four markets in two clusters of two, as ingest and clustering leave them.
DiscoverMarkets ==
    << Mkt("m1", "q1", "YES"), Mkt("m2", "q2", "NO"),
       Mkt("m3", "q3", "YES"), Mkt("m4", "q4", "NONE") >>

DiscoverAssignments ==
    << [market_id |-> "m1", cluster_id |-> "c_0"], [market_id |-> "m2", cluster_id |-> "c_0"],
       [market_id |-> "m3", cluster_id |-> "c_1"], [market_id |-> "m4", cluster_id |-> "c_1"] >>

\* The categories labeling left: both clusters labeled, or c_1 left at "other".
DiscoverClusterTables ==
    { << [cluster_id |-> "c_0", category |-> "politics", label_rationale |-> "why"],
         [cluster_id |-> "c_1", category |-> cat, label_rationale |-> ""] >>
      : cat \in {"sports", "other"} }

\* The relations an earlier discovery run left: none, one row for c_0, or one
\* row for each cluster.
DiscoverRelationTables ==
    { <<>>,
      << RelRow("c_0", Rel("m2", "m1", "q2", "q1", FALSE, 60, "old")) >>,
      << RelRow("c_1", Rel("m3", "m4", "q3", "q4", TRUE, 70, "old")),
         RelRow("c_0", Rel("m2", "m1", "q2", "q1", FALSE, 60, "old")) >> }

\* What the collaborator may put in a response: a proposal for the pair
\* (m1, m2), one for (m2, m1), and one whose confidence_score 1.5 fails
\* validation.  A response may repeat an item.
RespPool ==
    { Rel("m1", "m2", "q1", "q2", TRUE, 95, "first"),
      Rel("m2", "m1", "q2", "q1", FALSE, 60, ""),
      Rel("m3", "m4", "q3", "q4", TRUE, 150, "") }

Responses ==
    {Response("error", <<>>), Response("text", <<>>)}
        \cup {Response("json", items) : items \in SeqsOf(RespPool, 0, MaxRespLen)}

\* The arguments of a call; 60 is the configured cap on relations per cluster,
\* which no response of the model exceeds.
DiscoverArgs ==
    [openai_api_key : BOOLEAN, max_clusters : {2}, max_markets_per_cluster : {2},
     max_relations_per_cluster : {1, 60}, only_labeled : BOOLEAN, only_resolved : BOOLEAN,
     skip_clusters_with_relations : BOOLEAN, parallel_workers : {1, 5}]

InitDiscover ==
    /\ dbExists = TRUE
    /\ markets = DiscoverMarkets
    /\ market_clusters = DiscoverAssignments
    /\ clusters \in DiscoverClusterTables
    /\ relations \in DiscoverRelationTables
    /\ last = NoCall
    /\ calls = 0
    /\ DiscoverIdle
    /\ PipelineIdle
    /\ requests = 0

CallDiscover == \E args \in DiscoverArgs : run_discover_relations(args)

WorkerStart == \E t \in 1..Len(fut) : worker_start(t)

WorkerFinish == \E t \in 1..Len(fut), resp \in Responses : worker_finish(t, resp)

HandleCompleted == \E t \in 1..Len(fut), ioFail \in BOOLEAN : handle_completed(t, ioFail)

NextDiscover ==
    \/ CallDiscover
    \/ WorkerStart
    \/ WorkerFinish
    \/ HandleCompleted
    \/ return_results

SpecDiscover == InitDiscover /\ [][NextDiscover]_vars

(***************************************************************************)
(* The store driven call by call.                                          *)
(***************************************************************************)
\* The database file outlives the process: a run starts on whatever earlier runs
\* left.  StoredBefore is what write_markets, write_clusters,
\* update_cluster_labels and one write_relations_for_cluster per cluster leave.
StoredBefore ==
    [markets |-> << Mkt("m1", "q1", "YES"), Mkt("m2", "q2", "NONE"), Mkt("m3", "q3", "NO") >>,
     clusters |-> << [cluster_id |-> "c_0", category |-> "politics", label_rationale |-> "why"],
                     [cluster_id |-> "c_1", category |-> "other", label_rationale |-> ""] >>,
     market_clusters |-> << [market_id |-> "m1", cluster_id |-> "c_0"],
                            [market_id |-> "m2", cluster_id |-> "c_0"],
                            [market_id |-> "m3", cluster_id |-> "c_1"] >>,
     relations |-> << RelRow("c_0", Rel("m2", "m1", "q2", "q1", TRUE, 60, "")),
                      RelRow("c_1", Rel("m1", "m2", "q1", "q2", TRUE, 95, "first")) >>]

InitStore ==
    /\ \/ /\ dbExists = FALSE
          /\ markets = <<>>
          /\ clusters = <<>>
          /\ market_clusters = <<>>
          /\ relations = <<>>
       \/ /\ dbExists = TRUE
          /\ markets = StoredBefore.markets
          /\ clusters = StoredBefore.clusters
          /\ market_clusters = StoredBefore.market_clusters
          /\ relations = StoredBefore.relations
    /\ last = NoCall
    /\ calls = 0
    /\ DiscoverIdle
    /\ PipelineIdle
    /\ requests = 0

Counted == calls < MaxCalls /\ calls' = calls + 1 /\ UNCHANGED <<discVars, pipeVars, requests>>

CallInitSchema == Counted /\ init_schema

CallClearDerivedData == Counted /\ clear_derived_data

CallWriteMarkets == Counted /\ \E ms \in MarketBatches : write_markets(ms)

CallWriteClusters ==
    Counted /\ \E cs \in ClusterLists, ioFail \in BOOLEAN : write_clusters(cs, ioFail)

CallUpdateLabels == Counted /\ \E labels \in LabelMaps : update_cluster_labels(labels)

CallWriteRelations ==
    Counted /\ \E cid \in ClusterIds, rels \in RelLists, ioFail \in BOOLEAN :
        write_relations_for_cluster(cid, rels, ioFail)

NextStore ==
    \/ CallInitSchema
    \/ CallClearDerivedData
    \/ CallWriteMarkets
    \/ CallWriteClusters
    \/ CallUpdateLabels
    \/ CallWriteRelations

SpecStore == InitStore /\ [][NextStore]_vars

(***************************************************************************)
(* A resumed discovery run beside another process that writes relations.   *)
(***************************************************************************)
\* The run is called with skip_clusters_with_relations.
CallResume ==
    \E args \in {a \in DiscoverArgs : a.openai_api_key /\ a.skip_clusters_with_relations} :
        run_discover_relations(args)

\* Another process on the same database file writes one relation for a
\* cluster while the run is going on.
OtherWriter ==
    /\ dpc = "running"
    /\ Counted
    /\ \E cid \in ClusterIds :
          write_relations_for_cluster(cid, <<Rel("m4", "m3", "q4", "q3", TRUE, 80, "other")>>,
                                      FALSE)

NextResume ==
    \/ CallResume
    \/ WorkerStart
    \/ WorkerFinish
    \/ HandleCompleted
    \/ return_results
    \/ OtherWriter

SpecResume == InitDiscover /\ [][NextResume]_vars

(***************************************************************************)
(* Discovery on a cluster of more markets than max_markets_per_cluster.    *)
(***************************************************************************)
\* c_0 has five assignments, in the order m2, m1, m5, m4, m3: m2 is not
\* resolved and m5 is no stored market.  c_0 has no relation row or one.
InitTruncate ==
    /\ dbExists = TRUE
    /\ markets = << Mkt("m1", "q1", "YES"), Mkt("m2", "q2", "NONE"),
                    Mkt("m3", "q3", "NO"), Mkt("m4", "q4", "YES") >>
    /\ clusters = << [cluster_id |-> "c_0", category |-> "politics",
                      label_rationale |-> "why"] >>
    /\ market_clusters = [k \in 1..5 |->
                             [market_id |-> <<"m2", "m1", "m5", "m4", "m3">>[k],
                              cluster_id |-> "c_0"]]
    /\ relations \in { <<>>,
                        << RelRow("c_0", Rel("m2", "m1", "q2", "q1", FALSE, 60, "old")) >> }
    /\ last = NoCall
    /\ calls = 0
    /\ DiscoverIdle
    /\ PipelineIdle
    /\ requests = 0

\* The call with max_markets_per_cluster of 1, 2, 3 and 5.
CallTruncate ==
    \E args \in [openai_api_key : {TRUE}, max_clusters : {2},
                  max_markets_per_cluster : {1, 2, 3, 5}, max_relations_per_cluster : {60},
                  only_labeled : {FALSE}, only_resolved : BOOLEAN,
                  skip_clusters_with_relations : {FALSE}, parallel_workers : {1}] :
        run_discover_relations(args)

NextTruncate ==
    \/ CallTruncate
    \/ WorkerStart
    \/ WorkerFinish
    \/ HandleCompleted
    \/ return_results

SpecTruncate == InitTruncate /\ [][NextTruncate]_vars

(***************************************************************************)
(* Discovery with parallel_workers out of range.                           *)
(***************************************************************************)
\* The arguments of a call with parallel_workers of -3, 0, 2 and 25.
PoolArgs ==
    [openai_api_key : {TRUE}, max_clusters : {2}, max_markets_per_cluster : {2},
     max_relations_per_cluster : {60}, only_labeled : {FALSE}, only_resolved : {FALSE},
     skip_clusters_with_relations : BOOLEAN, parallel_workers : {-3, 0, 2, 25}]

CallPool == \E args \in PoolArgs : run_discover_relations(args)

\* A request raises, is answered with no JSON object, or with one relation.
PoolFinish ==
    \E t \in 1..Len(fut),
       resp \in {Response("error", <<>>), Response("text", <<>>),
                 Response("json", <<Rel("m1", "m2", "q1", "q2", TRUE, 95, "first")>>)} :
        worker_finish(t, resp)

NextPool ==
    \/ CallPool
    \/ WorkerStart
    \/ PoolFinish
    \/ HandleCompleted
    \/ return_results

\* Every request is answered or raises (the client call is bounded by its
\* timeout), the executor runs every submitted item, and the loop over
\* as_completed takes every finished future.
FairPool == InitDiscover /\ [][NextPool]_vars /\ WF_vars(NextPool)

(***************************************************************************)
(* Two discovery runs, one after the other, on the same store.             *)
(***************************************************************************)
\* A call of either run.
CallRun ==
    \E args \in [openai_api_key : {TRUE}, max_clusters : {2}, max_markets_per_cluster : {2},
                  max_relations_per_cluster : {60}, only_labeled : BOOLEAN,
                  only_resolved : {FALSE}, skip_clusters_with_relations : BOOLEAN,
                  parallel_workers : {5}] :
        run_discover_relations(args)

\* A request raises, or is answered with an empty or a one-item relations list.
RunFinish ==
    \E t \in 1..Len(fut),
       resp \in {Response("error", <<>>), Response("json", <<>>),
                 Response("json", <<Rel("m1", "m2", "q1", "q2", TRUE, 95, "first")>>)} :
        worker_finish(t, resp)

\* The first run has returned to its caller, which may call again.
caller_calls_again ==
    /\ dpc = "returned"
    /\ calls = 0
    /\ calls' = 1
    /\ dpc' = "idle"
    /\ UNCHANGED <<storeVars, last, pipeVars, requests, dargs, tasks, fut, results,
                   failed_clusters, completed>>

NextTwoRuns ==
    \/ CallRun
    \/ WorkerStart
    \/ RunFinish
    \/ HandleCompleted
    \/ return_results
    \/ caller_calls_again

SpecTwoRuns == InitDiscover /\ [][NextTwoRuns]_vars

\* One store call of any kind, then one write_relations_for_cluster on what it
\* left.
FirstCall == calls = 0 /\ NextStore

ThenWriteRelations == calls = 1 /\ CallWriteRelations

NextWrite ==
    \/ FirstCall
    \/ ThenWriteRelations

SpecWrite == InitStore /\ [][NextWrite]_vars

(***************************************************************************)
(* pipeline/evaluate.py                                                    *)
(***************************************************************************)
\* A bug: a bucket is created already counting one relation.
EvalBucketStartsAtOne(n, correct) == [n |-> n + 1, correct |-> correct]

EvalBucket(n, correct) == [n |-> n, correct |-> correct]

EvalResult(total_relations, total_evaluable, total_correct, by_cluster, by_confidence_bucket) ==
    [total_relations |-> total_relations, total_evaluable |-> total_evaluable,
     total_correct |-> total_correct, by_cluster |-> by_cluster,
     by_confidence_bucket |-> by_confidence_bucket]

NoBuckets == [b \in {} |-> EvalBucket(0, 0)]

\* EvalResult(): every field at its default.
DefaultEvalResult == EvalResult(0, 0, 0, NoBuckets, NoBuckets)

\* A bug: the division is not guarded; -1 stands for the undefined value of a
\* division by zero.
AccuracyUnguarded(correct, n) == IF n = 0 THEN -1 ELSE (100 * correct) \div n

\* EvalBucket.accuracy and EvalResult.accuracy, in hundredths rounded down.
Accuracy(correct, n) == IF n # 0 THEN (100 * correct) \div n ELSE 0

Digit(d) == <<"0", "1", "2", "3", "4", "5", "6", "7", "8", "9">>[d + 1]

\* f"{x}" of a float x given in hundredths: 50 is "0.5", 0 is "0.0", 95 is "0.95".
FloatStr(x) ==
    LET whole == x \div 100
        frac  == x % 100
    IN  IF frac % 10 = 0
        THEN Digit(whole) \o "." \o Digit(frac \div 10)
        ELSE Digit(whole) \o "." \o Digit(frac \div 10) \o Digit(frac % 10)

DefaultBuckets == <<50, 70, 90>>

\* A bug: a score equal to a boundary falls in the bucket below it.
confidence_bucket_label_inclusive(score, boundaries) ==
    IF boundaries = <<>> THEN "all"
    ELSE LET sorted_b == SortSeq(boundaries, LAMBDA x, y : x < y)
             above    == {i \in 1..Len(sorted_b) : score <= sorted_b[i]}
         IN  IF above = {} THEN ">=" \o FloatStr(sorted_b[Len(sorted_b)])
             ELSE LET i   == CHOOSE a \in above : \A b \in above : a <= b
                      low == IF i > 1 THEN sorted_b[i - 1] ELSE 0
                  IN  FloatStr(low) \o "-" \o FloatStr(sorted_b[i])

\* _confidence_bucket_label
confidence_bucket_label(score, boundaries) ==
    IF boundaries = <<>> THEN "all"
    ELSE LET sorted_b == SortSeq(boundaries, LAMBDA x, y : x < y)
             above    == {i \in 1..Len(sorted_b) : score < sorted_b[i]}
         IN  IF above = {} THEN ">=" \o FloatStr(sorted_b[Len(sorted_b)])
             ELSE LET i   == CHOOSE a \in above : \A b \in above : a <= b
                      low == IF i > 1 THEN sorted_b[i - 1] ELSE 0
                  IN  FloatStr(low) \o "-" \o FloatStr(sorted_b[i])

\* read_relations: (cluster_id, MarketRelation) for every row, in table order.
read_relations ==
    IF ~dbExists THEN <<>>
    ELSE [k \in 1..Len(relations) |->
            [cluster_id |-> relations[k].cluster_id,
             rel |-> Rel(relations[k].market_id_i, relations[k].market_id_j,
                         relations[k].question_i, relations[k].question_j,
                         relations[k].is_same_outcome # 0,
                         relations[k].confidence_score, relations[k].rationale)]]

\* outcome_by_id.get(mid): the resolved outcome of the market, "NONE" if the
\* market is unknown or unresolved.
OutcomeById(ms, mid) ==
    IF \E k \in 1..Len(ms) : ms[k].id = mid
    THEN MarketById(ms, mid).resolved_outcome
    ELSE "NONE"

\* A bug: a relation whose confidence equals the minimum is skipped.
BelowMinInclusive(score, min_conf) == score <= min_conf

\* if rel.confidence_score < min_conf: continue
BelowMin(score, min_conf) == score < min_conf

\* A bug: the prediction is compared with "YES on both sides".
IsCorrectBothYes(same, o_i, o_j) == same = (o_i = "YES" /\ o_j = "YES")

\* ground_truth_same = o_i == o_j; correct = rel.is_same_outcome == ground_truth_same
IsCorrect(same, o_i, o_j) == same = (o_i = o_j)

\* settings.eval_confidence_buckets or [0.5, 0.7, 0.9]; "NONE" is None.
BucketsUsed(eval_confidence_buckets) ==
    IF eval_confidence_buckets = "NONE" \/ eval_confidence_buckets = <<>>
    THEN DefaultBuckets
    ELSE eval_confidence_buckets

\* run_evaluate_relations: the EvalResult it returns on the current store.
run_evaluate_relations(min_conf, eval_confidence_buckets) ==
    LET buckets   == BucketsUsed(eval_confidence_buckets)
        rs        == read_relations
        ms        == read_markets
        o_i(k)    == OutcomeById(ms, rs[k].rel.market_id_i)
        o_j(k)    == OutcomeById(ms, rs[k].rel.market_id_j)
        evaluable == {k \in 1..Len(rs) :
                         /\ ~BelowMin(rs[k].rel.confidence_score, min_conf)
                         /\ o_i(k) # "NONE"
                         /\ o_j(k) # "NONE"}
        correct   == {k \in evaluable : IsCorrect(rs[k].rel.is_same_outcome, o_i(k), o_j(k))}
        label(k)  == confidence_bucket_label(rs[k].rel.confidence_score, buckets)
    IN  EvalResult(Len(rs), Cardinality(evaluable), Cardinality(correct),
                   [cid \in {rs[k].cluster_id : k \in evaluable} |->
                       EvalBucket(Cardinality({k \in evaluable : rs[k].cluster_id = cid}),
                                  Cardinality({k \in correct : rs[k].cluster_id = cid}))],
                   [l \in {label(k) : k \in evaluable} |->
                       EvalBucket(Cardinality({k \in evaluable : label(k) = l}),
                                  Cardinality({k \in correct : label(k) = l}))])

\* A call of run_evaluate_relations on its own.
evaluate_call ==
    /\ calls < MaxCalls
    /\ calls' = calls + 1
    /\ result' = << run_evaluate_relations(settings.eval_min_confidence,
                                           settings.eval_confidence_buckets) >>
    /\ last' = Call("read_markets", "NONE", 0, 0, "NONE")
    /\ UNCHANGED <<storeVars, discVars, settings, csvExists, chroma, ppc, started, outcomes,
                   requests, ret>>

\* The markets table of the evaluated stores: four resolved markets and one
\* that is not.
EvalMarkets ==
    << Mkt("m1", "q1", "YES"), Mkt("m2", "q2", "NO"), Mkt("m3", "q3", "YES"),
       Mkt("m4", "q4", "NO"), Mkt("m5", "q5", "NONE") >>

\* Relation rows, with distinct keys: four between resolved markets with the
\* outcomes (YES,YES), (YES,NO), (NO,NO), (YES,NO), one to an unresolved
\* market, one to a market id the store does not hold, one of confidence 1.0.
EvalRowPool ==
    << RelRow("c_0", Rel("m1", "m3", "q1", "q3", TRUE, 95, "")),
       RelRow("c_0", Rel("m1", "m2", "q1", "q2", TRUE, 60, "")),
       RelRow("c_1", Rel("m2", "m4", "q2", "q4", TRUE, 70, "")),
       RelRow("c_1", Rel("m3", "m4", "q3", "q4", FALSE, 30, "")),
       RelRow("c_0", Rel("m1", "m5", "q1", "q5", TRUE, 90, "")),
       RelRow("c_1", Rel("m2", "m9", "q2", "q9", FALSE, 50, "")),
       RelRow("c_2", Rel("m3", "m1", "q3", "q1", FALSE, 100, "")) >>

\* The rows of the pool at the positions of S, in pool order.
PickRows(S) ==
    [k \in 1..Cardinality(S) |->
        EvalRowPool[CHOOSE i \in S : Cardinality({j \in S : j < i}) = k - 1]]

\* The relations tables of the evaluated stores.
EvalRelationTables ==
    {PickRows(S) : S \in {T \in SUBSET (1..Len(EvalRowPool)) : Cardinality(T) <= MaxEvalRows}}

\* The evaluation settings: the minimum confidence, and the boundaries (not
\* configured, empty, the defaults, unsorted, a single one).
EvalSettings ==
    [openai_api_key : {FALSE}, eval_min_confidence : {0, 70},
     eval_confidence_buckets : {"NONE", <<>>, <<50, 70, 90>>, <<90, 50>>, <<70>>}]

InitEvaluate ==
    /\ \/ /\ dbExists = FALSE
          /\ markets = <<>>
          /\ relations = <<>>
       \/ /\ dbExists = TRUE
          /\ markets = EvalMarkets
          /\ relations \in EvalRelationTables
    /\ clusters = <<>>
    /\ market_clusters = <<>>
    /\ last = NoCall
    /\ calls = 0
    /\ DiscoverIdle
    /\ settings \in EvalSettings
    /\ csvExists = FALSE
    /\ chroma = NoChroma
    /\ ppc = "idle"
    /\ started = <<>>
    /\ outcomes = <<>>
    /\ result = <<>>
    /\ requests = 0
    /\ ret = NoReturn

NextEvaluate == evaluate_call

SpecEvaluate == InitEvaluate /\ [][NextEvaluate]_vars

(***************************************************************************)
(* pipeline/run_full.py and the stages it runs.                            *)
(***************************************************************************)
\* A bug: embed is started before ingest.
StageOrderEmbedFirst ==
    <<"reset", "embed", "ingest", "cluster", "label", "relations", "evaluate">>

\* The try blocks of run_full_pipeline, top to bottom.
StageOrder == <<"reset", "ingest", "embed", "cluster", "label", "relations", "evaluate">>

\* A bug: the try block has no except, what a stage raises leaves the driver.
StageEndsPropagating(outcome) ==
    /\ outcomes' = Append(outcomes, outcome)
    /\ ppc' = IF outcome = "raised" THEN "raised" ELSE "between"
    /\ UNCHANGED <<settings, csvExists, started, calls>>

\* The stage returned, or raised into the except of its try block.
StageEnds(outcome) ==
    /\ outcomes' = Append(outcomes, outcome)
    /\ ppc' = "between"
    /\ UNCHANGED <<settings, csvExists, started, calls>>

\* The stage goes on to its next store call.
StageGoesOn(at) ==
    /\ ppc' = at
    /\ UNCHANGED <<settings, csvExists, started, outcomes, calls>>

\* run_full_pipeline up to its first try block.
run_full_pipeline ==
    /\ ppc = "idle"
    /\ ppc' = IF csvExists THEN "between" ELSE "raised"
    /\ result' = <<>>
    /\ UNCHANGED <<storeVars, last, calls, discVars, requests, ret, settings, csvExists, chroma, started,
                   outcomes>>

\* The next try block is entered.
stage_start ==
    /\ ppc = "between"
    /\ Len(started) < Len(StageOrder)
    /\ started' = Append(started, StageOrder[Len(started) + 1])
    /\ ppc' = StageOrder[Len(started) + 1]
    /\ UNCHANGED <<storeVars, last, calls, discVars, requests, ret, settings, csvExists, chroma, outcomes,
                   result>>

\* run_reset: clear_derived_data.
run_reset(fail) ==
    /\ ppc = "reset"
    /\ IF fail
       THEN /\ StageEnds("raised")
            /\ UNCHANGED <<storeVars, last>>
       ELSE /\ clear_derived_data
            /\ StageGoesOn("reset_chroma")
    /\ UNCHANGED <<discVars, requests, ret, chroma, result>>

\* run_reset: the Chroma collection is deleted.
run_reset_chroma(fail) ==
    /\ ppc = "reset_chroma"
    /\ IF ~chroma.path
       THEN /\ StageEnds("returned")
            /\ UNCHANGED chroma
       ELSE IF fail
       THEN /\ StageEnds("raised")
            /\ UNCHANGED chroma
       ELSE /\ StageEnds("returned")
            /\ chroma' = [chroma EXCEPT !.collection = FALSE, !.ids = {}]
    /\ UNCHANGED <<storeVars, last, discVars, requests, ret, result>>

\* load_from_csv_and_save: load_markets_from_csv, then init_schema.
load_from_csv_and_save(fail) ==
    /\ ppc = "ingest"
    /\ IF fail
       THEN /\ StageEnds("raised")
            /\ UNCHANGED <<storeVars, last>>
       ELSE /\ init_schema
            /\ StageGoesOn("ingest_write")
    /\ UNCHANGED <<discVars, requests, ret, chroma, result>>

\* load_from_csv_and_save: write_markets of the markets loaded.
load_from_csv_and_save_write(ms) ==
    /\ ppc = "ingest_write"
    /\ write_markets(ms)
    /\ StageEnds("returned")
    /\ UNCHANGED <<discVars, requests, ret, chroma, result>>

\* [m.id for m in markets]
IdsOf(ms) == [k \in 1..Len(ms) |-> ms[k].id]

\* run_embed_and_store; fail: embed_markets raises.
run_embed_and_store(fail) ==
    /\ ppc = "embed"
    /\ IF read_markets = <<>>
       THEN /\ StageEnds("returned")
            /\ UNCHANGED chroma
       ELSE IF fail
       THEN /\ StageEnds("raised")
            /\ chroma' = [chroma EXCEPT !.path = TRUE, !.collection = TRUE]
       ELSE /\ StageEnds("returned")
            /\ chroma' = [path |-> TRUE, collection |-> TRUE,
                          ids |-> chroma.ids \cup {read_markets[k].id : k \in 1..Len(read_markets)}]
    /\ UNCHANGED <<storeVars, last, discVars, requests, ret, result>>

\* A bug: k is not capped at n.
NumClustersUncapped(n, cluster_ratio, max_clusters) ==
    LET byRatio == (n * cluster_ratio) \div 100
        capped  == IF byRatio < max_clusters THEN byRatio ELSE max_clusters
    IN  IF capped > 1 THEN capped ELSE 1

\* k = max(1, min(int(n * cluster_ratio), max_clusters)); if k > n: k = n
NumClusters(n, cluster_ratio, max_clusters) ==
    LET byRatio == (n * cluster_ratio) \div 100
        capped  == IF byRatio < max_clusters THEN byRatio ELSE max_clusters
        k       == IF capped > 1 THEN capped ELSE 1
    IN  IF k > n THEN n ELSE k

\* f"c_{i}"
ClusterName(i) == "c_" \o Digit(i)

\* The labels fit_predict may return for n points and k clusters; the model
\* takes those that use every cluster and keep the points' order.
KMeansLabels(n, k) ==
    {l \in [1..n -> 0..(k - 1)] :
        /\ \A i \in 0..(k - 1) : \E j \in 1..n : l[j] = i
        /\ \A j \in 1..(n - 1) : l[j] <= l[j + 1]}

\* The Cluster list built from the labels.
BuildClusters(ids_returned, labels, k) ==
    [c \in 1..k |->
        Clu(ClusterName(c - 1),
            SelectSeq(ids_returned,
                      LAMBDA mid : \E j \in 1..Len(ids_returned) :
                                       ids_returned[j] = mid /\ labels[j] = c - 1),
            "other", "NONE")]

\* The ids collection.get returns: the requested ids the collection holds.
IdsReturned == SelectSeq(IdsOf(read_markets), LAMBDA mid : mid \in chroma.ids)

\* A bug: with no markets or no vectors the stage raises.
run_cluster_and_store_raises_empty(fail, labels) ==
    /\ ppc = "cluster"
    /\ IF \/ read_markets = <<>>
          \/ ~chroma.path
          \/ ~chroma.collection
          \/ IdsReturned = <<>>
       THEN /\ StageEnds("raised")
            /\ ret' = NoReturn
            /\ last' = Call("read_markets", "NONE", 0, 0, "NONE")
            /\ UNCHANGED storeVars
       ELSE IF fail
       THEN /\ StageEnds("raised")
            /\ ret' = NoReturn
            /\ last' = Call("read_markets", "NONE", 0, 0, "NONE")
            /\ UNCHANGED storeVars
       ELSE LET n == Len(IdsReturned)
                k == NumClusters(n, settings.cluster_ratio, settings.max_clusters)
            IN  /\ labels \in [1..n -> 0..(k - 1)]
                /\ write_clusters(BuildClusters(IdsReturned, labels, k), FALSE)
                /\ ret' = Returned("run_cluster_and_store",
                                BuildClusters(IdsReturned, labels, k), NoLabels)
                /\ StageEnds("returned")
    /\ UNCHANGED <<discVars, requests, chroma, result>>

\* run_cluster_and_store; fail: the clustering raises; labels: what fit_predict
\* returns.
run_cluster_and_store(fail, labels) ==
    /\ ppc = "cluster"
    /\ IF \/ read_markets = <<>>
          \/ ~chroma.path
          \/ ~chroma.collection
          \/ IdsReturned = <<>>
       THEN /\ StageEnds("returned")
            /\ ret' = Returned("run_cluster_and_store", <<>>, NoLabels)
            /\ last' = Call("read_markets", "NONE", 0, 0, "NONE")
            /\ UNCHANGED storeVars
       ELSE IF fail
       THEN /\ StageEnds("raised")
            /\ ret' = NoReturn
            /\ last' = Call("read_markets", "NONE", 0, 0, "NONE")
            /\ UNCHANGED storeVars
       ELSE LET n == Len(IdsReturned)
                k == NumClusters(n, settings.cluster_ratio, settings.max_clusters)
            IN  /\ labels \in [1..n -> 0..(k - 1)]
                /\ write_clusters(BuildClusters(IdsReturned, labels, k), FALSE)
                /\ ret' = Returned("run_cluster_and_store",
                                BuildClusters(IdsReturned, labels, k), NoLabels)
                /\ StageEnds("returned")
    /\ UNCHANGED <<discVars, requests, chroma, result>>

\* The clusters run_label_clusters labels.
ClustersToLabel ==
    Take(SelectSeq(read_clusters, LAMBDA c : c.category = "other"),
         settings.label_max_clusters)

\* The questions of the cluster's sample: read_markets_by_ids of the first
\* sample_size member ids.
SampleQuestions(c) ==
    LET sample_ids == Take(c.market_ids, settings.label_sample_size)
    IN  {markets[k].question : k \in {j \in 1..Len(markets) :
                                         /\ \E s \in 1..Len(sample_ids) : sample_ids[s] = markets[j].id
                                         /\ markets[j].question # ""}}

\* The labels dict: answers[k] is what label_single_cluster returns for the
\* k-th cluster.
LabelsOf(cs, answers) ==
    [cid \in {cs[k].cluster_id : k \in 1..Len(cs)} |->
        LET k == CHOOSE j \in 1..Len(cs) : cs[j].cluster_id = cid
        IN  IF SampleQuestions(cs[k]) = {}
            THEN <<"other", "No questions available for this cluster sample.">>
            ELSE <<answers[k].category, answers[k].rationale>>]

\* The label_single_cluster calls the loop makes: one per cluster that has
\* questions, up to and including the first call that raises.
LabelRequests(cs, answers) ==
    LET asked  == {k \in 1..Len(cs) : SampleQuestions(cs[k]) # {}}
        failed == {k \in asked : answers[k].kind = "error"}
    IN  Cardinality({k \in asked : \A f \in failed : k <= f})

\* A bug: the clusters are read before the credential is looked at.
run_label_clusters_reads_first(answers) ==
    /\ ppc = "label"
    /\ IF read_clusters = <<>>
       THEN /\ StageEnds("returned")
            /\ ret' = Returned("run_label_clusters", <<>>, NoLabels)
            /\ last' = Call("read_clusters", "NONE", 0, 0, "NONE")
            /\ UNCHANGED <<storeVars, requests>>
       ELSE IF ~settings.openai_api_key
       THEN /\ StageEnds("raised")
            /\ ret' = NoReturn
            /\ last' = Call("read_clusters", "NONE", 0, 0, "NONE")
            /\ UNCHANGED <<storeVars, requests>>
       ELSE IF \E k \in 1..Len(ClustersToLabel) :
                   SampleQuestions(ClustersToLabel[k]) # {} /\ answers[k].kind = "error"
       THEN /\ StageEnds("raised")
            /\ ret' = NoReturn
            /\ last' = Call("read_markets_by_ids", "NONE", 0, 0, "NONE")
            /\ requests' = requests + LabelRequests(ClustersToLabel, answers)
            /\ UNCHANGED storeVars
       ELSE /\ update_cluster_labels(LabelsOf(ClustersToLabel, answers))
            /\ ret' = Returned("run_label_clusters", <<>>,
                            LabelsOf(ClustersToLabel, answers))
            /\ requests' = requests + LabelRequests(ClustersToLabel, answers)
            /\ StageEnds("returned")
    /\ UNCHANGED <<discVars, chroma, result>>

\* A bug: the labels obtained before the call that raises are persisted.
run_label_clusters_persists_partial(answers) ==
    /\ ppc = "label"
    /\ IF ~settings.openai_api_key
       THEN /\ StageEnds("raised")
            /\ ret' = NoReturn
            /\ UNCHANGED <<storeVars, last, requests>>
       ELSE IF read_clusters = <<>>
       THEN /\ StageEnds("returned")
            /\ ret' = Returned("run_label_clusters", <<>>, NoLabels)
            /\ last' = Call("read_clusters", "NONE", 0, 0, "NONE")
            /\ UNCHANGED <<storeVars, requests>>
       ELSE IF \E k \in 1..Len(ClustersToLabel) :
                   SampleQuestions(ClustersToLabel[k]) # {} /\ answers[k].kind = "error"
       THEN LET bad    == {k \in 1..Len(ClustersToLabel) :
                              /\ SampleQuestions(ClustersToLabel[k]) # {}
                              /\ answers[k].kind = "error"}
                before == SelectSeq(ClustersToLabel,
                                    LAMBDA c : \E k \in 1..Len(ClustersToLabel) :
                                                   /\ ClustersToLabel[k] = c
                                                   /\ \A b \in bad : k < b)
            IN  /\ StageEnds("raised")
                /\ ret' = NoReturn
                /\ update_cluster_labels(LabelsOf(before, answers))
                /\ requests' = requests + LabelRequests(ClustersToLabel, answers)
       ELSE /\ update_cluster_labels(LabelsOf(ClustersToLabel, answers))
            /\ ret' = Returned("run_label_clusters", <<>>,
                            LabelsOf(ClustersToLabel, answers))
            /\ requests' = requests + LabelRequests(ClustersToLabel, answers)
            /\ StageEnds("returned")
    /\ UNCHANGED <<discVars, chroma, result>>

\* run_label_clusters; an answer of kind "error" is a label_single_cluster
\* call that raises.
run_label_clusters(answers) ==
    /\ ppc = "label"
    /\ IF ~settings.openai_api_key
       THEN /\ StageEnds("raised")
            /\ ret' = NoReturn
            /\ UNCHANGED <<storeVars, last, requests>>
       ELSE IF read_clusters = <<>>
       THEN /\ StageEnds("returned")
            /\ ret' = Returned("run_label_clusters", <<>>, NoLabels)
            /\ last' = Call("read_clusters", "NONE", 0, 0, "NONE")
            /\ UNCHANGED <<storeVars, requests>>
       ELSE IF \E k \in 1..Len(ClustersToLabel) :
                   SampleQuestions(ClustersToLabel[k]) # {} /\ answers[k].kind = "error"
       THEN /\ StageEnds("raised")
            /\ ret' = NoReturn
            /\ last' = Call("read_markets_by_ids", "NONE", 0, 0, "NONE")
            /\ requests' = requests + LabelRequests(ClustersToLabel, answers)
            /\ UNCHANGED storeVars
       ELSE /\ update_cluster_labels(LabelsOf(ClustersToLabel, answers))
            /\ ret' = Returned("run_label_clusters", <<>>,
                            LabelsOf(ClustersToLabel, answers))
            /\ requests' = requests + LabelRequests(ClustersToLabel, answers)
            /\ StageEnds("returned")
    /\ UNCHANGED <<discVars, chroma, result>>

\* run_discover_relations(db_url, skip_clusters_with_relations=True)
PipelineDiscoverArgs ==
    [openai_api_key |-> settings.openai_api_key,
     max_clusters |-> settings.relations_max_clusters,
     max_markets_per_cluster |-> settings.relations_max_markets_per_cluster,
     max_relations_per_cluster |-> settings.relations_max_relations_per_cluster,
     only_labeled |-> TRUE, only_resolved |-> FALSE,
     skip_clusters_with_relations |-> TRUE,
     parallel_workers |-> settings.relations_parallel_workers]

\* The discover stage calls run_discover_relations.
discover_stage_call ==
    /\ ppc = "relations"
    /\ run_discover_relations(PipelineDiscoverArgs)

\* run_discover_relations returned or raised.
discover_stage_end ==
    /\ ppc = "relations"
    /\ dpc \in {"returned", "raised"}
    /\ StageEnds(dpc)
    /\ UNCHANGED <<storeVars, last, discVars, requests, ret, chroma, result>>

\* A bug: an evaluation that raises leaves the relations it had read in result.
evaluate_stage_partial(fail) ==
    /\ ppc = "evaluate"
    /\ IF fail
       THEN /\ StageEnds("raised")
            /\ result' = << EvalResult(Len(read_relations), 0, 0, NoBuckets, NoBuckets) >>
       ELSE /\ StageEnds("returned")
            /\ result' = << run_evaluate_relations(settings.eval_min_confidence,
                                                   settings.eval_confidence_buckets) >>
    /\ UNCHANGED <<storeVars, last, discVars, requests, ret, chroma>>

\* The evaluate stage; fail: run_evaluate_relations raises.
evaluate_stage(fail) ==
    /\ ppc = "evaluate"
    /\ IF fail
       THEN /\ StageEnds("raised")
            /\ UNCHANGED result
       ELSE /\ StageEnds("returned")
            /\ result' = << run_evaluate_relations(settings.eval_min_confidence,
                                                   settings.eval_confidence_buckets) >>
    /\ UNCHANGED <<storeVars, last, discVars, requests, ret, chroma>>

\* A bug: the driver returns as soon as a stage has raised.
pipeline_return_after_raise ==
    /\ ppc = "between"
    /\ \/ Len(started) = Len(StageOrder)
       \/ outcomes # <<>> /\ outcomes[Len(outcomes)] = "raised"
    /\ ppc' = "returned"
    /\ result' = IF result = <<>> THEN << DefaultEvalResult >> ELSE result
    /\ UNCHANGED <<storeVars, last, calls, discVars, requests, ret, settings, csvExists, chroma, started,
                   outcomes>>

\* if result is None: result = EvalResult(); return result
pipeline_return ==
    /\ ppc = "between"
    /\ Len(started) = Len(StageOrder)
    /\ ppc' = "returned"
    /\ result' = IF result = <<>> THEN << DefaultEvalResult >> ELSE result
    /\ UNCHANGED <<storeVars, last, calls, discVars, requests, ret, settings, csvExists, chroma, started,
                   outcomes>>

\* The configurations of the runs.
PipelineSettings ==
    [openai_api_key : BOOLEAN, cluster_ratio : {50}, max_clusters : {2},
     label_max_clusters : {2}, label_sample_size : {2},
     relations_max_clusters : {2}, relations_max_markets_per_cluster : {2},
     relations_max_relations_per_cluster : {60}, relations_parallel_workers : {5},
     eval_min_confidence : {0, 70}, eval_confidence_buckets : {<<>>, <<90, 50>>}]

\* The market lists load_markets_from_csv returns.
CsvMarkets == { <<>>, DiscoverMarkets }

\* What label_single_cluster does for one cluster.
LabelAnswers ==
    { [kind |-> "ok", category |-> "politics", rationale |-> "why"],
      [kind |-> "ok", category |-> "other", rationale |-> "NONE"],
      [kind |-> "error", category |-> "NONE", rationale |-> "NONE"] }

\* The Chroma directory before the run: absent, or the markets of an earlier
\* run embedded.
ChromaBefore ==
    { NoChroma, [path |-> TRUE, collection |-> TRUE, ids |-> {"m1", "m2", "m3"}] }

InitPipeline ==
    /\ \/ /\ dbExists = FALSE
          /\ markets = <<>>
          /\ clusters = <<>>
          /\ market_clusters = <<>>
          /\ relations = <<>>
       \/ /\ dbExists = TRUE
          /\ markets = StoredBefore.markets
          /\ clusters = StoredBefore.clusters
          /\ market_clusters = StoredBefore.market_clusters
          /\ relations = StoredBefore.relations
    /\ last = NoCall
    /\ calls = 0
    /\ DiscoverIdle
    /\ settings \in PipelineSettings
    /\ csvExists \in BOOLEAN
    /\ chroma \in ChromaBefore
    /\ ppc = "idle"
    /\ started = <<>>
    /\ outcomes = <<>>
    /\ result = <<>>
    /\ requests = 0
    /\ ret = NoReturn

RunReset == \E fail \in BOOLEAN : run_reset(fail)

RunResetChroma == \E fail \in BOOLEAN : run_reset_chroma(fail)

Ingest == \E fail \in BOOLEAN : load_from_csv_and_save(fail)

IngestWrite == \E ms \in CsvMarkets : load_from_csv_and_save_write(ms)

Embed == \E fail \in BOOLEAN : run_embed_and_store(fail)

ClusterStage ==
    \E fail \in BOOLEAN,
       labels \in KMeansLabels(Len(IdsReturned),
                               NumClusters(Len(IdsReturned), settings.cluster_ratio,
                                           settings.max_clusters)) :
        run_cluster_and_store(fail, labels)

Label == \E answers \in [1..MaxLabeled -> LabelAnswers] : run_label_clusters(answers)

Evaluate == \E fail \in BOOLEAN : evaluate_stage(fail)

NextPipeline ==
    \/ run_full_pipeline
    \/ stage_start
    \/ RunReset
    \/ RunResetChroma
    \/ Ingest
    \/ IngestWrite
    \/ Embed
    \/ ClusterStage
    \/ Label
    \/ discover_stage_call
    \/ WorkerStart
    \/ WorkerFinish
    \/ HandleCompleted
    \/ return_results
    \/ discover_stage_end
    \/ Evaluate
    \/ pipeline_return

SpecPipeline == InitPipeline /\ [][NextPipeline]_vars

\* run_full_pipeline is called and runs on: the driver is one sequential
\* function, the discover loop waits on as_completed for every future it
\* submitted, and every stage call and collaborator request comes back, with a
\* value or an exception.
\* The runs whose termination is followed: every store, input file and
\* credential state, the evaluation settings at 0 and the default boundaries.
InitFairPipeline ==
    /\ InitPipeline
    /\ settings.eval_min_confidence = 0
    /\ settings.eval_confidence_buckets = <<>>

FairPipeline == InitFairPipeline /\ [][NextPipeline]_vars /\ WF_vars(NextPipeline)

(***************************************************************************)
(* The clustering stage alone, on stores of one to MaxMarkets markets.     *)
(***************************************************************************)
MaxMarkets == 4

\* The markets table after an ingest of n markets.
IngestedMarkets(n) == [i \in 1..n |-> Mkt("m" \o Digit(i), "q" \o Digit(i), "NONE")]

\* cluster_ratio in hundredths (1.5 can only come as the cluster_ratio
\* argument: the setting is at most 1.0) and max_clusters.
ClusterSettings ==
    [openai_api_key : {FALSE}, cluster_ratio : {1, 34, 50, 100, 150}, max_clusters : {1, 2, 3},
     label_max_clusters : {2}, label_sample_size : {2},
     relations_max_clusters : {2}, relations_max_markets_per_cluster : {2},
     relations_max_relations_per_cluster : {60}, relations_parallel_workers : {5},
     eval_min_confidence : {0}, eval_confidence_buckets : {<<>>}]

\* The driver is about to call the cluster stage; every stored market is
\* embedded, or every one but the first.
InitCluster ==
    /\ dbExists = TRUE
    /\ \E n \in 1..MaxMarkets :
          /\ markets = IngestedMarkets(n)
          /\ \E skip \in 0..1 :
                chroma = [path |-> TRUE, collection |-> TRUE,
                          ids |-> {IngestedMarkets(n)[i].id : i \in (1 + skip)..n}]
    /\ clusters = StoredBefore.clusters
    /\ market_clusters = StoredBefore.market_clusters
    /\ relations = <<>>
    /\ last = NoCall
    /\ calls = 0
    /\ DiscoverIdle
    /\ settings \in ClusterSettings
    /\ csvExists = TRUE
    /\ ppc = "cluster"
    /\ started = <<"reset", "ingest", "embed", "cluster">>
    /\ outcomes = <<"returned", "returned", "returned">>
    /\ result = <<>>
    /\ requests = 0
    /\ ret = NoReturn

\* fit_predict may assign the n points to the k clusters in any way.
ClusterAnyLabels ==
    \E fail \in BOOLEAN,
       labels \in [1..Len(IdsReturned) ->
                      0..(NumClusters(Len(IdsReturned), settings.cluster_ratio,
                                      settings.max_clusters) - 1)] :
        run_cluster_and_store(fail, labels)

NextCluster == ClusterAnyLabels

SpecCluster == InitCluster /\ [][NextCluster]_vars

(***************************************************************************)
(* Claims about the store.                                                 *)
(***************************************************************************)
\* The rows of table t that belong to cluster cid, in table order.
RowsOfCluster(t, cid) == SelectSeq(t, LAMBDA r : r.cluster_id = cid)

\* The rows of table t that belong to any other cluster, in table order.
RowsOfOthers(t, cid) == SelectSeq(t, LAMBDA r : r.cluster_id # cid)

\* The positions of rels that hold the first occurrence of their pair.
FirstPositions(rels) ==
    {n \in 1..Len(rels) : \A m \in 1..(n - 1) : PairKey(rels[m]) # PairKey(rels[n])}

\* The rows a list should leave: its first occurrences, in list order.
ExpectedRows(cid, rels) ==
    LET firsts == SelectSeq([n \in 1..Len(rels) |-> n], LAMBDA n : n \in FirstPositions(rels))
    IN  [k \in 1..Len(firsts) |-> RelRow(cid, rels[firsts[k]])]

\* Every pair of rels has exactly one row of cluster cid in t, and that row
\* carries the fields of the pair's first occurrence in rels.
OneRowPerPair(t, cid, rels) ==
    \A n \in FirstPositions(rels) :
        LET hits == {k \in 1..Len(t) : /\ t[k].cluster_id = cid
                                       /\ t[k].market_id_i = rels[n].market_id_i
                                       /\ t[k].market_id_j = rels[n].market_id_j}
        IN  /\ Cardinality(hits) = 1
            /\ \A k \in hits : t[k] = RelRow(cid, rels[n])

\* A step that is a call write_relations_for_cluster(cid, rels) leaves its name,
\* cid and Len(rels) in last, which is how the formulas below find the calls.

ReplacesExactly(cid, rels) ==
    /\ RowsOfCluster(relations', cid) = ExpectedRows(cid, rels)
    /\ RowsOfOthers(relations', cid) = RowsOfOthers(relations, cid)
    /\ clusters' = clusters
    /\ market_clusters' = market_clusters
    /\ markets' = markets

C7_UniqueRelationRows ==
    /\ \A a, b \in 1..Len(relations) : RowKey(relations[a]) = RowKey(relations[b]) => a = b
    /\ last.err # "IntegrityError"

\* A list holding a duplicated pair was written without an error.
C7_Witness ==
    /\ last.op = "write_relations_for_cluster"
    /\ last.err = "NONE"
    /\ last.n_written >= 1
    /\ last.n_in > last.n_written
    /\ RowsOfOthers(relations, last.cluster_id) # <<>>

\* C8: clear_derived_data leaves no cluster, no assignment and no relation,
\* and leaves the markets table as it was.
C8_ClearKeepsMarkets ==
    [][clear_derived_data =>
          /\ clusters' = <<>>
          /\ market_clusters' = <<>>
          /\ relations' = <<>>
          /\ markets' = markets]_vars

\* A store holding markets, clusters, assignments and relations was cleared.
C8_Witness ==
    /\ last.op = "clear_derived_data"
    /\ calls = 1
    /\ markets = StoredBefore.markets
    /\ clusters = <<>>

(***************************************************************************)
(* Claims about relation discovery.                                        *)
(***************************************************************************)
\* The collaborator call of task t raised, or its store write raised.
TaskFailed(t) == ~fut[t].ok \/ fut[t].write_err # "NONE"

InFailedClusters(cid) == \E k \in 1..Len(failed_clusters) : failed_clusters[k] = cid

\* C1: a collaborator call or a store write that raises for one cluster does
\* not abort run_discover_relations: the call returns, the cluster is in
\* failed_clusters and not in the returned mapping, and every other dispatched
\* cluster whose task succeeded is persisted and in the mapping with its count.
C1_FailureIsolated ==
    /\ dpc = "raised" => ~dargs.openai_api_key
    /\ dpc = "returned" =>
          \A t \in 1..Len(tasks) :
              LET cid == tasks[t].cluster_id
              IN  /\ fut[t].st = "handled"
                  /\ TaskFailed(t) => InFailedClusters(cid) /\ cid \notin DOMAIN results
                  /\ ~TaskFailed(t) =>
                        /\ ~InFailedClusters(cid)
                        /\ cid \in DOMAIN results
                        /\ results[cid] = Len(fut[t].relations)
                        /\ RowsOfCluster(relations, cid) = ExpectedRows(cid, fut[t].relations)

\* The run returned; one cluster's collaborator call raised and another
\* cluster's relations were written.
C1_Witness ==
    /\ dpc = "returned"
    /\ \E a, b \in 1..Len(tasks) :
          /\ fut[a].answer = "error"
          /\ InFailedClusters(tasks[a].cluster_id)
          /\ ~TaskFailed(b)
          /\ results[tasks[b].cluster_id] >= 1
          /\ RowsOfCluster(relations, tasks[b].cluster_id) # <<>>

\* C2: a cluster whose response is no JSON object or fails validation is in
\* failed_clusters and is no key of the returned mapping.
C2_InvalidResponseIsFailure ==
    dpc = "returned" =>
        \A t \in 1..Len(tasks) :
            fut[t].answer \in {"text", "invalid"} =>
                /\ InFailedClusters(tasks[t].cluster_id)
                /\ tasks[t].cluster_id \notin DOMAIN results

\* C3: while a call with skip_clusters_with_relations runs, a cluster that has
\* relation rows never gets more of them.
C3_ResumeNeverGrows ==
    [][(dpc = "running" /\ dargs.skip_clusters_with_relations) =>
          \A cid \in ClusterIds :
              RowsOfCluster(relations, cid) # <<>> =>
                  Len(RowsOfCluster(relations', cid)) <= Len(RowsOfCluster(relations, cid))]_vars

\* A resumed run returned: c_0, which had a row, was skipped and kept it, and
\* c_1 was dispatched and written.
C3_Witness ==
    /\ dpc = "returned"
    /\ dargs.skip_clusters_with_relations
    /\ Len(tasks) = 1
    /\ tasks[1].cluster_id = "c_1"
    /\ "c_1" \in DOMAIN results
    /\ results["c_1"] >= 1
    /\ Len(RowsOfCluster(relations, "c_0")) = 1

\* C6: every value of the returned mapping is the number of relation rows
\* persisted for its cluster when the call returns.
C6_CountIsRowsWritten ==
    dpc = "returned" =>
        \A cid \in DOMAIN results : results[cid] = Len(RowsOfCluster(relations, cid))

(***************************************************************************)
(* Claims about the pipeline driver.                                       *)
(***************************************************************************)
\* C9: only the ingest stage changes the markets table: no step of reset,
\* embed, cluster, label, discover or evaluate, returning or raising, and no
\* step of the driver between stages changes it.
C9_MarketsOnlyByIngest ==
    [][ppc \notin {"ingest", "ingest_write"} => markets' = markets]_vars

\* A run on a populated store returned: ingest raised, the reset cleared the
\* derived tables, cluster, label and discover wrote new ones, evaluate
\* raised, and the markets are the ones stored before the run.
C9_Witness ==
    /\ ppc = "returned"
    /\ outcomes[1] = "returned"
    /\ outcomes[2] = "raised"
    /\ outcomes[7] = "raised"
    /\ markets = StoredBefore.markets
    /\ clusters # <<>>
    /\ relations # <<>>
    /\ relations # StoredBefore.relations

\* C10: the stages start in the order reset, ingest, embed, cluster, label,
\* relations (called with skip_clusters_with_relations), evaluate, each at most
\* once and only when every stage started before it has finished.
C10_StagesInOrder ==
    /\ \E n \in 0..7 :
          started = SubSeq(<<"reset", "ingest", "embed", "cluster", "label", "relations",
                             "evaluate">>, 1, n)
    /\ Len(outcomes) <= Len(started)
    /\ Len(started) <= Len(outcomes) + 1
    /\ Len(started) = Len(outcomes) + 1 <=> ppc \notin {"idle", "raised", "between", "returned"}
    /\ ppc = "returned" => Len(outcomes) = 7
    /\ dpc # "idle" =>
          /\ Len(started) >= 6
          /\ dargs.skip_clusters_with_relations

\* A run returned after all seven stages, one of which raised, and its
\* discover stage dispatched a cluster.
C10_Witness ==
    /\ ppc = "returned"
    /\ Len(started) = 7
    /\ \E k \in 1..7 : outcomes[k] = "raised"
    /\ Len(tasks) >= 1

\* C11: once run_full_pipeline is past its input-file check, every one of the
\* seven stages is started exactly once whichever of the earlier stages raised:
\* a stage that raised leaves the driver between two try blocks with the next
\* stage ready to start, and the driver returns only after all seven stages
\* have started and ended.
C11_EveryStageAttempted ==
    /\ \A i, j \in 1..Len(started) : started[i] = started[j] => i = j
    /\ (ppc = "between" /\ Len(started) < 7) => ENABLED stage_start
    /\ (ppc = "between" /\ Len(started) < 7) => ~ENABLED pipeline_return
    /\ \A k \in 1..Len(outcomes) :
          outcomes[k] = "raised" =>
              \/ Len(started) > k
              \/ k = 7
              \/ ppc = "between" /\ Len(started) = k
    /\ ppc = "returned" =>
          /\ started = <<"reset", "ingest", "embed", "cluster", "label", "relations", "evaluate">>
          /\ Len(outcomes) = 7

\* A run in which all seven stages raised has returned, every stage started.
C11_Witness ==
    /\ ppc = "returned"
    /\ Len(started) = 7
    /\ outcomes = <<"raised", "raised", "raised", "raised", "raised", "raised", "raised">>

\* C12: run_full_pipeline returns exactly one EvalResult; when the evaluate
\* stage raised it is the all-zero one (the three totals 0, both breakdowns
\* empty, accuracy 0), and when evaluate returned it is the value evaluate
\* computed on the store the earlier stages left, not the default.
C12_ReturnsEvalResult ==
    ppc = "returned" =>
        /\ Len(result) = 1
        /\ DOMAIN result[1] = {"total_relations", "total_evaluable", "total_correct",
                                "by_cluster", "by_confidence_bucket"}
        /\ outcomes[7] = "raised" =>
              /\ result[1].total_relations = 0
              /\ result[1].total_evaluable = 0
              /\ result[1].total_correct = 0
              /\ DOMAIN result[1].by_cluster = {}
              /\ DOMAIN result[1].by_confidence_bucket = {}
              /\ Accuracy(result[1].total_correct, result[1].total_evaluable) = 0
        /\ outcomes[7] = "returned" =>
              result[1] = run_evaluate_relations(settings.eval_min_confidence,
                                                 settings.eval_confidence_buckets)

\* A run returned whose evaluate stage raised although the store holds
\* relations that evaluate to a result with evaluable rows.
C12_Witness ==
    /\ ppc = "returned"
    /\ outcomes[7] = "raised"
    /\ relations # <<>>
    /\ run_evaluate_relations(settings.eval_min_confidence,
                              settings.eval_confidence_buckets).total_evaluable > 0
    /\ result = << DefaultEvalResult >>

\* C13 as stated: every run of run_full_pipeline, whatever the starting state
\* (input file absent, credential missing), ends by returning a result.
C13_Original == <>(ppc = "returned")

\* C13: a run whose input CSV file exists always ends by returning a result,
\* with or without the credential and whichever stages raise; a run whose input
\* file is absent ends by raising FileNotFoundError to its caller before any
\* stage has started; and that is the only exception that leaves the driver.
C13_ReturnsUnlessNoCsv ==
    /\ csvExists ~> (ppc = "returned" /\ Len(result) = 1)
    /\ (~csvExists) ~> (ppc = "raised")
    /\ [](ppc = "raised" => (~csvExists /\ started = <<>> /\ outcomes = <<>>))
    /\ [](ppc = "returned" => csvExists)

\* A run without the credential, whose label and discover stages raised the
\* misconfiguration error, has returned a result.
C13_Witness ==
    /\ ppc = "returned"
    /\ csvExists
    /\ ~settings.openai_api_key
    /\ outcomes[5] = "raised"
    /\ outcomes[6] = "raised"
    /\ Len(result) = 1

\* C14: without the collaborator credential, run_label_clusters and
\* run_discover_relations raise the misconfiguration error before any work:
\* the call reads no table (the last store call is the one of the stage
\* before), sends no request, dispatches no cluster, writes nothing and leaves
\* every table as it was, whether or not the store holds clusters.
C14_NoKeyRaisesBeforeWork ==
    [][(~settings.openai_api_key /\ ppc \in {"label", "relations"}) =>
          /\ UNCHANGED <<dbExists, markets, clusters, market_clusters, relations>>
          /\ last' = last
          /\ requests' = requests
          /\ tasks' = <<>>
          /\ fut' = <<>>
          /\ results' = NoResults
          /\ ppc = "label" => outcomes' = Append(outcomes, "raised")
          /\ ppc = "relations" =>
                /\ dpc' = "raised"
                /\ dpc = "raised" => outcomes' = Append(outcomes, "raised")]_vars

\* Without the credential and with clusters in the store, the label stage has
\* raised and run_discover_relations has just raised, no request sent.
C14_Witness ==
    /\ ~settings.openai_api_key
    /\ ppc = "relations"
    /\ dpc = "raised"
    /\ outcomes[5] = "raised"
    /\ clusters # <<>>
    /\ requests = 0

\* C15: with the credential configured and no cluster in the store,
\* run_label_clusters returns the empty mapping and run_discover_relations
\* returns the empty mapping with no cluster dispatched; with no market in the
\* store or no vector for any stored market, run_cluster_and_store returns the
\* empty list.  None of these calls raises, sends a request or changes a table.
C15_NothingToDoIsEmptyResult ==
    [][/\ (ppc = "label" /\ settings.openai_api_key /\ (~dbExists \/ clusters = <<>>)) =>
             /\ outcomes' = Append(outcomes, "returned")
             /\ ret' = Returned("run_label_clusters", <<>>, NoLabels)
             /\ requests' = requests
             /\ UNCHANGED <<dbExists, markets, clusters, market_clusters, relations>>
       /\ (ppc = "relations" /\ settings.openai_api_key /\ (~dbExists \/ clusters = <<>>)) =>
             /\ dpc' = "returned"
             /\ DOMAIN results' = {}
             /\ tasks' = <<>>
             /\ failed_clusters' = <<>>
             /\ requests' = requests
             /\ dpc = "returned" => outcomes' = Append(outcomes, "returned")
             /\ UNCHANGED <<dbExists, markets, clusters, market_clusters, relations>>
       /\ (/\ ppc = "cluster"
           /\ \/ ~dbExists
              \/ markets = <<>>
              \/ ~chroma.path
              \/ ~chroma.collection
              \/ \A k \in 1..Len(markets) : markets[k].id \notin chroma.ids) =>
             /\ outcomes' = Append(outcomes, "returned")
             /\ ret' = Returned("run_cluster_and_store", <<>>, NoLabels)
             /\ requests' = requests
             /\ UNCHANGED <<dbExists, markets, clusters, market_clusters, relations>>]_vars

\* With the credential and markets but no vectors, the cluster stage returned
\* the empty list, the label stage the empty mapping, and discover has just
\* returned the empty mapping, no request sent.
C15_Witness ==
    /\ settings.openai_api_key
    /\ ppc = "relations"
    /\ dpc = "returned"
    /\ markets # <<>>
    /\ clusters = <<>>
    /\ outcomes[4] = "returned"
    /\ outcomes[5] = "returned"
    /\ ret = Returned("run_label_clusters", <<>>, NoLabels)
    /\ DOMAIN results = {}
    /\ requests = 0

(***************************************************************************)
(* Claims about the evaluation.                                            *)
(***************************************************************************)
\* The ids of the stored markets whose outcome is YES or NO.
ResolvedIds == {markets[k].id : k \in {j \in 1..Len(markets) :
                                           markets[j].resolved_outcome \in {"YES", "NO"}}}

\* The rows of the relations table the evaluation is to count: confidence at
\* least the configured minimum and both markets resolved.
EvaluableRows ==
    {k \in 1..Len(relations) :
        /\ relations[k].confidence_score >= settings.eval_min_confidence
        /\ relations[k].market_id_i \in ResolvedIds
        /\ relations[k].market_id_j \in ResolvedIds}

\* The sum of the counts n of the buckets of a breakdown.
RECURSIVE SumN(_)
SumN(f) ==
    IF DOMAIN f = {} THEN 0
    ELSE LET x == CHOOSE y \in DOMAIN f : TRUE
         IN  f[x].n + SumN([y \in DOMAIN f \ {x} |-> f[y]])

\* C16: the result of run_evaluate_relations counts a stored relation as
\* evaluable exactly when its confidence is at least the configured minimum and
\* both its market ids are stored markets with outcome YES or NO; the other
\* rows add to total_relations only, and to no cluster or confidence bucket.
C16_EvaluableIffConfidentAndResolved ==
    result # <<>> =>
        /\ result[1].total_relations = Len(relations)
        /\ result[1].total_evaluable = Cardinality(EvaluableRows)
        /\ result[1].total_correct <= Cardinality(EvaluableRows)
        /\ DOMAIN result[1].by_cluster = {relations[k].cluster_id : k \in EvaluableRows}
        /\ \A cid \in DOMAIN result[1].by_cluster :
              /\ result[1].by_cluster[cid].n =
                     Cardinality({k \in EvaluableRows : relations[k].cluster_id = cid})
              /\ result[1].by_cluster[cid].correct <= result[1].by_cluster[cid].n
        /\ SumN(result[1].by_confidence_bucket) = Cardinality(EvaluableRows)
        /\ \A l \in DOMAIN result[1].by_confidence_bucket :
              /\ result[1].by_confidence_bucket[l].n >= 1
              /\ result[1].by_confidence_bucket[l].correct <= result[1].by_confidence_bucket[l].n

\* Evaluated with minimum 0.7: a table with a row of confidence 0.6, a row of
\* confidence exactly 0.7 between resolved markets, a row to an unresolved
\* market and a row to an unknown market id; one row is evaluable.
C16_Witness ==
    /\ result # <<>>
    /\ settings.eval_min_confidence = 70
    /\ relations = PickRows({2, 3, 5, 6})
    /\ result[1].total_relations = 4
    /\ result[1].total_evaluable = 1
    /\ DOMAIN result[1].by_cluster = {"c_1"}

\* The stored outcome of the market with id mid.
StoredOutcome(mid) ==
    markets[CHOOSE k \in 1..Len(markets) : markets[k].id = mid].resolved_outcome

\* The evaluable rows whose predicted flag equals "the two outcomes are equal".
CorrectRows ==
    {k \in EvaluableRows :
        (relations[k].is_same_outcome = 1) <=>
            (StoredOutcome(relations[k].market_id_i) = StoredOutcome(relations[k].market_id_j))}

\* C17: an evaluable relation is counted correct exactly when its predicted
\* is_same_outcome flag equals (outcome_i = outcome_j), in the total and in its
\* cluster's bucket; the four relations with outcomes (YES,YES), (YES,NO),
\* (NO,NO), (YES,NO) and predictions same, same, same, opposite give 4
\* evaluable, 3 correct, accuracy 0.75; and evaluating the same store and
\* settings again gives the same result.
C17_CorrectIffPredictionMatchesTruth ==
    /\ [](result # <<>> =>
            /\ result[1].total_correct = Cardinality(CorrectRows)
            /\ \A cid \in DOMAIN result[1].by_cluster :
                  result[1].by_cluster[cid].correct =
                      Cardinality({k \in CorrectRows : relations[k].cluster_id = cid})
            /\ (relations = PickRows({1, 2, 3, 4}) /\ settings.eval_min_confidence = 0) =>
                  /\ result[1].total_evaluable = 4
                  /\ result[1].total_correct = 3
                  /\ Accuracy(result[1].total_correct, result[1].total_evaluable) = 75)
    /\ [][result # <<>> => result' = result]_vars

\* The four relations of the example, evaluated twice with minimum 0: four
\* evaluable, three correct.
C17_Witness ==
    /\ calls = 2
    /\ result # <<>>
    /\ relations = PickRows({1, 2, 3, 4})
    /\ settings.eval_min_confidence = 0
    /\ result[1].total_evaluable = 4
    /\ result[1].total_correct = 3

\* The boundary list is configured, non-empty and ascending.
AscendingConfigured(B) ==
    /\ B # "NONE"
    /\ B # <<>>
    /\ \A i \in 1..(Len(B) - 1) : B[i] < B[i + 1]

\* The bucket of score s for the ascending list B, from the number of
\* boundaries that are at most s: above the last boundary when all are, else
\* between the last boundary at most s (0 when there is none) and the next.
ExpectedBucket(s, B) ==
    LET atMost == Cardinality({i \in 1..Len(B) : B[i] <= s})
    IN  IF atMost = Len(B) THEN ">=" \o FloatStr(B[Len(B)])
        ELSE FloatStr(IF atMost = 0 THEN 0 ELSE B[atMost]) \o "-" \o FloatStr(B[atMost + 1])

\* C18: with an ascending non-empty boundary list, every evaluable relation is
\* counted in exactly one confidence bucket: the one between the last boundary
\* at most its score (0 when there is none) and the first boundary above its
\* score, or the ">=" bucket of the last boundary when no boundary is above; a
\* score equal to a boundary is in the bucket above it; with [0.5, 0.7, 0.9]
\* the scores 0.3, 0.6 and 0.95 are in the first, second and ">=0.9" buckets.
C18_BucketOfScore ==
    /\ (result # <<>> /\ AscendingConfigured(settings.eval_confidence_buckets)) =>
          LET B    == settings.eval_confidence_buckets
              E(k) == ExpectedBucket(relations[k].confidence_score, B)
          IN  /\ DOMAIN result[1].by_confidence_bucket = {E(k) : k \in EvaluableRows}
              /\ \A l \in DOMAIN result[1].by_confidence_bucket :
                    /\ result[1].by_confidence_bucket[l].n =
                           Cardinality({k \in EvaluableRows : E(k) = l})
                    /\ result[1].by_confidence_bucket[l].correct =
                           Cardinality({k \in CorrectRows : E(k) = l})
    /\ confidence_bucket_label(30, <<50, 70, 90>>) = "0.0-0.5"
    /\ confidence_bucket_label(60, <<50, 70, 90>>) = "0.5-0.7"
    /\ confidence_bucket_label(95, <<50, 70, 90>>) = ">=0.9"
    /\ confidence_bucket_label(70, <<50, 70, 90>>) = "0.7-0.9"
    /\ confidence_bucket_label(90, <<50, 70, 90>>) = ">=0.9"
    /\ confidence_bucket_label(70, <<70>>) = ">=0.7"

\* Relations of confidence 0.95, 0.6, 0.7 and 0.3 evaluated with the
\* boundaries [0.5, 0.7, 0.9]: one relation in each of the four buckets.
C18_Witness ==
    /\ result # <<>>
    /\ settings.eval_confidence_buckets # "NONE"
    /\ settings.eval_confidence_buckets = <<50, 70, 90>>
    /\ settings.eval_min_confidence = 0
    /\ relations = PickRows({1, 2, 3, 4})
    /\ DOMAIN result[1].by_confidence_bucket = {"0.0-0.5", "0.5-0.7", "0.7-0.9", ">=0.9"}
    /\ \A l \in DOMAIN result[1].by_confidence_bucket : result[1].by_confidence_bucket[l].n = 1

\* C19: with no boundaries configured the evaluation buckets by
\* [0.5, 0.7, 0.9]; with an empty configured boundary list every evaluable
\* relation is counted in the single bucket "all".
C19_EmptyListIsCatchAll ==
    result # <<>> =>
        /\ settings.eval_confidence_buckets = "NONE" =>
              \A l \in DOMAIN result[1].by_confidence_bucket :
                  \E k \in EvaluableRows :
                      l = ExpectedBucket(relations[k].confidence_score, <<50, 70, 90>>)
        /\ (settings.eval_confidence_buckets # "NONE" /\ settings.eval_confidence_buckets = <<>>) =>
              /\ DOMAIN result[1].by_confidence_bucket \subseteq {"all"}
              /\ EvaluableRows # {} =>
                    result[1].by_confidence_bucket["all"].n = Cardinality(EvaluableRows)

\* C20: the accuracy of a bucket whose count n is 0 and of a result whose
\* total_evaluable is 0 is 0, and the accuracy of every bucket and of the
\* total of every evaluation result, the one of the empty store included, is a
\* defined value between 0 and 1.
C20_AccuracyGuarded ==
    /\ Accuracy(EvalBucket(0, 0).correct, EvalBucket(0, 0).n) = 0
    /\ Accuracy(DefaultEvalResult.total_correct, DefaultEvalResult.total_evaluable) = 0
    /\ result # <<>> =>
          /\ Accuracy(result[1].total_correct, result[1].total_evaluable) \in 0..100
          /\ result[1].total_evaluable = 0 =>
                Accuracy(result[1].total_correct, result[1].total_evaluable) = 0
          /\ \A cid \in DOMAIN result[1].by_cluster :
                Accuracy(result[1].by_cluster[cid].correct, result[1].by_cluster[cid].n) \in 0..100
          /\ \A l \in DOMAIN result[1].by_confidence_bucket :
                Accuracy(result[1].by_confidence_bucket[l].correct,
                         result[1].by_confidence_bucket[l].n) \in 0..100

\* The empty store (no database file) has been evaluated: nothing evaluable.
C20_Witness ==
    /\ ~dbExists
    /\ result # <<>>
    /\ result[1].total_relations = 0
    /\ result[1].total_evaluable = 0

(***************************************************************************)
(* Claims about the cluster tables.                                        *)
(***************************************************************************)
\* The clusters rows a list of clusters stands for.
GroupsOf(cs) ==
    {[cluster_id |-> cs[k].cluster_id, category |-> cs[k].category,
      label_rationale |-> OrEmpty(cs[k].label_rationale)] : k \in 1..Len(cs)}

\* The market_clusters rows a list of clusters stands for.
MembershipsOf(cs) ==
    UNION {{[market_id |-> cs[k].market_ids[i], cluster_id |-> cs[k].cluster_id] :
               i \in 1..Len(cs[k].market_ids)} : k \in 1..Len(cs)}

\* The rows of a table, as a set.
RowSet(t) == {t[k] : k \in 1..Len(t)}

\* The clusters of the list have distinct ids and no market is listed twice.
DisjointGroups(cs) ==
    /\ \A a, b \in 1..Len(cs) : cs[a].cluster_id = cs[b].cluster_id => a = b
    /\ \A a, b \in 1..Len(cs) : \A i \in 1..Len(cs[a].market_ids), j \in 1..Len(cs[b].market_ids) :
          cs[a].market_ids[i] = cs[b].market_ids[j] => (a = b /\ i = j)

\* C21: after write_clusters(L) returns, for every list L of disjoint groups,
\* the empty list included, the clusters table holds exactly the groups of L
\* and the market_clusters table exactly the memberships of L; and a write
\* that fails part-way leaves both tables as they were.
C21_ReplacesEntireSet ==
    [][last'.op = "write_clusters" =>
          \A cs \in {l \in ClusterLists : DisjointGroups(l)} :
              /\ write_clusters(cs, FALSE) =>
                    /\ RowSet(clusters') = GroupsOf(cs)
                    /\ RowSet(market_clusters') = MembershipsOf(cs)
              /\ write_clusters(cs, TRUE) =>
                    /\ clusters' = clusters
                    /\ market_clusters' = market_clusters]_vars

\* C22: in every store state a market id has at most one market_clusters row,
\* also after write_clusters was given groups whose member lists overlap, and
\* no market id is in two member lists, or twice in one, of what read_clusters
\* returns.
C22_OneGroupPerMarket ==
    /\ \A a, b \in 1..Len(market_clusters) :
          market_clusters[a].market_id = market_clusters[b].market_id => a = b
    /\ \A k, l \in 1..Len(read_clusters) :
          \A i \in 1..Len(read_clusters[k].market_ids), j \in 1..Len(read_clusters[l].market_ids) :
              read_clusters[k].market_ids[i] = read_clusters[l].market_ids[j] => (k = l /\ i = j)

\* write_clusters was given c_0 = [m1, m2] and c_1 = [m2], both unlabeled:
\* m2 is assigned to c_1 alone.
C22_Witness ==
    /\ last.op = "write_clusters"
    /\ last.err = "NONE"
    /\ RowSet(clusters) = {[cluster_id |-> "c_0", category |-> "other", label_rationale |-> ""],
                           [cluster_id |-> "c_1", category |-> "other", label_rationale |-> ""]}
    /\ market_clusters = << [market_id |-> "m1", cluster_id |-> "c_0"],
                            [market_id |-> "m2", cluster_id |-> "c_1"] >>
    /\ \E k \in 1..Len(read_clusters) :
          read_clusters[k].cluster_id = "c_1" /\ read_clusters[k].market_ids = <<"m2">>

\* C23: update_cluster_labels(mapping) keeps the set and order of the clusters
\* rows, every assignment, every relation and every market; it sets category
\* and rationale of the rows whose id is in the mapping and leaves the other
\* rows as they were; an id of the mapping without a row adds no row.
C23_LabelsOnly ==
    [][last'.op = "update_cluster_labels" =>
          /\ dbExists' = dbExists
          /\ markets' = markets
          /\ market_clusters' = market_clusters
          /\ relations' = relations
          /\ Len(clusters') = Len(clusters)
          /\ \A k \in 1..Len(clusters) : clusters'[k].cluster_id = clusters[k].cluster_id
          /\ \A labels \in LabelMaps :
                update_cluster_labels(labels) =>
                    \A k \in 1..Len(clusters) :
                        IF clusters[k].cluster_id \in DOMAIN labels
                        THEN /\ clusters'[k].category = labels[clusters[k].cluster_id][1]
                             /\ clusters'[k].label_rationale =
                                    OrEmpty(labels[clusters[k].cluster_id][2])
                        ELSE clusters'[k] = clusters[k]]_vars

\* The labels of c_0 and c_1 were set to sports on the stored clustering: two
\* rows as before, the assignments and relations as before.
C23_Witness ==
    /\ last.op = "update_cluster_labels"
    /\ last.n_in = 2
    /\ clusters = << [cluster_id |-> "c_0", category |-> "sports", label_rationale |-> ""],
                     [cluster_id |-> "c_1", category |-> "sports", label_rationale |-> ""] >>
    /\ market_clusters = StoredBefore.market_clusters
    /\ relations = StoredBefore.relations
    /\ markets = StoredBefore.markets

\* C24: while the database file is missing every store read returns an empty
\* result; and every store write of a non-empty argument that returns on a
\* missing file has created the file, and what it was given is then stored:
\* write_relations_for_cluster leaves rows of its cluster, write_markets
\* markets, write_clusters clusters.
C24_MissingFileReadsEmptyWritesCreate ==
    /\ [](~dbExists =>
            /\ read_markets = <<>>
            /\ read_clusters = <<>>
            /\ read_relations = <<>>
            /\ get_cluster_ids_with_relations = {})
    /\ [][(/\ ~dbExists
           /\ last'.op \in {"write_markets", "write_clusters", "update_cluster_labels",
                             "write_relations_for_cluster"}
           /\ last'.n_in > 0
           /\ last'.err = "NONE") =>
              /\ dbExists'
              /\ last'.op = "write_markets" => markets' # <<>>
              /\ last'.op = "write_clusters" => clusters' # <<>>
              /\ last'.op = "write_relations_for_cluster" =>
                    RowsOfCluster(relations', last'.cluster_id) # <<>>]_vars

(***************************************************************************)
(* Claims about the discovery run's tasks.                                 *)
(***************************************************************************)
\* The relations of task t are the rows of its cluster.
TaskPersisted(t) ==
    RowsOfCluster(relations, tasks[t].cluster_id)
        = ExpectedRows(tasks[t].cluster_id, fut[t].relations)

\* C25 as stated: at every point of a running run_discover_relations, every
\* cluster whose task has completed successfully has its relations in the
\* store.
C25_Original ==
    dpc = "running" =>
        \A t \in 1..Len(tasks) :
            (fut[t].st \in {"done", "handled"} /\ ~TaskFailed(t)) => TaskPersisted(t)

\* C25 amended: at every point of a running run_discover_relations, every
\* cluster whose successful task the as_completed loop has taken has its
\* relations in the store; a task that has returned and that the loop has not
\* taken yet has nothing written.
C25_PersistedWhenHandled ==
    dpc = "running" =>
        \A t \in 1..Len(tasks) :
            (fut[t].st = "handled" /\ ~TaskFailed(t)) => TaskPersisted(t)

\* The run is not over: one cluster's relations are written while another
\* cluster's request is still out.
C25_Witness ==
    /\ dpc = "running"
    /\ \E a, b \in 1..Len(tasks) :
          /\ fut[a].st = "handled"
          /\ ~TaskFailed(a)
          /\ fut[a].relations # <<>>
          /\ TaskPersisted(a)
          /\ fut[b].st = "running"

\* The tasks run_discover_relations builds on a store whose relations table is
\* r0, by the arguments in dargs other than parallel_workers.
TasksFrom(r0) ==
    LET all     == read_clusters
        labeled == SelectSeq(all, LAMBDA c : dargs.only_labeled => c.category # "other")
        done    == {r0[k].cluster_id : k \in 1..Len(r0)}
        todo    == SelectSeq(labeled,
                             LAMBDA c : dargs.skip_clusters_with_relations
                                            => c.cluster_id \notin done)
        sel     == Take(todo, dargs.max_clusters)
        withMs  == [k \in 1..Len(sel) |->
                       [cluster_id |-> sel[k].cluster_id, category |-> sel[k].category,
                        m_list |-> MemberMarkets(sel[k], read_markets, dargs.only_resolved)]]
        kept    == SelectSeq(withMs, LAMBDA t : Len(t.m_list) >= 2)
    IN  [k \in 1..Len(kept) |->
            [kept[k] EXCEPT !.m_list = Take(@, dargs.max_markets_per_cluster)]]

\* The clusters whose task returned relations that the store took.
WrittenTasks == {t \in 1..Len(tasks) : ~TaskFailed(t)}

\* The relation rows a run on r0 leaves, by what each task's request was
\* answered: the answers of the written clusters, and the rows r0 had for
\* every other cluster.
FinalRows(r0) ==
    {row \in RowSet(r0) : \A t \in WrittenTasks : row.cluster_id # tasks[t].cluster_id}
        \cup UNION {RowSet(ExpectedRows(tasks[t].cluster_id, fut[t].relations)) :
                        t \in WrittenTasks}

\* The mapping a run returns, by what each task's request was answered.
FinalCounts ==
    [cid \in {tasks[t].cluster_id : t \in WrittenTasks} |->
        Len(fut[CHOOSE t \in WrittenTasks : tasks[t].cluster_id = cid].relations)]

\* C26: the relation rows in the store and the mapping returned when
\* run_discover_relations returns are a function of the store at the call, of
\* the arguments other than parallel_workers and of the answer to each
\* cluster's request: they are the same whatever the order in which the tasks
\* complete and whatever the width of the pool.
C26_OrderAndWidthIndependent ==
    \A r0 \in DiscoverRelationTables :
        (relations = r0) =>
            [](dpc = "returned" =>
                  /\ tasks = TasksFrom(r0)
                  /\ RowSet(relations) = FinalRows(r0)
                  /\ results = FinalCounts)

\* A run with a pool of five returned; both clusters were written, and the
\* second task's rows were stored before the first task's.
C26_Witness ==
    /\ dpc = "returned"
    /\ dargs.parallel_workers = 5
    /\ Len(tasks) = 2
    /\ WrittenTasks = {1, 2}
    /\ Len(relations) >= 2
    /\ relations[1].cluster_id = tasks[2].cluster_id
    /\ relations[Len(relations)].cluster_id = tasks[1].cluster_id

(***************************************************************************)
(* Claims about the clustering stage.                                      *)
(***************************************************************************)
\* floor(n * ratio), ratio in hundredths.
FloorOfRatio(n, ratio) == CHOOSE q \in 0..(2 * n) : q * 100 <= n * ratio /\ n * ratio < (q + 1) * 100

Clamp(x, lo, hi) == IF x < lo THEN lo ELSE IF x > hi THEN hi ELSE x

\* The group count C27 states for n embedded markets.
ExpectedK(n) ==
    LET c == Clamp(FloorOfRatio(n, settings.cluster_ratio), 1, settings.max_clusters)
    IN  IF c > n THEN n ELSE c

\* The groups of the list cs that hold market id mid.
GroupsHolding(cs, mid) ==
    {g \in 1..Len(cs) : \E j \in 1..Len(cs[g].market_ids) : cs[g].market_ids[j] = mid}

\* C27: when the cluster stage has clustered N >= 1 embedded markets, it has
\* built and written k = clamp(floor(N * ratio), 1, max_clusters) groups, k
\* capped at N, named c_0 .. c_(k-1); every embedded market id is a member of
\* exactly one of the groups, once, in the list returned and in the store, and
\* no other market id is a member of any.
C27_GroupCountAndCover ==
    (ret.by = "run_cluster_and_store" /\ ret.clusters # <<>>) =>
        LET n  == Len(IdsReturned)
            cs == ret.clusters
        IN  /\ n >= 1
            /\ Len(cs) = ExpectedK(n)
            /\ Len(cs) <= n
            /\ Len(clusters) = Len(cs)
            /\ \A g \in 1..Len(cs) :
                  /\ cs[g].cluster_id = ClusterName(g - 1)
                  /\ clusters[g].cluster_id = cs[g].cluster_id
                  /\ \A i, j \in 1..Len(cs[g].market_ids) :
                        cs[g].market_ids[i] = cs[g].market_ids[j] => i = j
                  /\ \A j \in 1..Len(cs[g].market_ids) : cs[g].market_ids[j] \in chroma.ids
            /\ \A mid \in {IdsReturned[j] : j \in 1..n} :
                  /\ Cardinality(GroupsHolding(cs, mid)) = 1
                  /\ Cardinality({a \in 1..Len(market_clusters) :
                                     market_clusters[a].market_id = mid}) = 1
                  /\ \A a \in 1..Len(market_clusters) :
                        market_clusters[a].market_id = mid =>
                            \E g \in GroupsHolding(cs, mid) :
                                market_clusters[a].cluster_id = cs[g].cluster_id
            /\ Len(market_clusters) = n

\* Three of four stored markets are embedded; ratio 1.5 and max_clusters 3
\* give floor(4.5) = 4, clamped to 3, and three groups were written, the
\* first embedded market in the last group.
C27_Witness ==
    /\ ret.by = "run_cluster_and_store"
    /\ Len(markets) = 4
    /\ Len(IdsReturned) = 3
    /\ settings.cluster_ratio = 150
    /\ settings.max_clusters = 3
    /\ Len(ret.clusters) = 3
    /\ Len(clusters) = 3
    /\ ret.clusters[3].market_ids = <<"m2">>
    /\ Len(market_clusters) = 3

(***************************************************************************)
(* Claims about which clusters a discovery run works on.                   *)
(***************************************************************************)
\* The stored markets that are members of cluster cid and count under
\* only_resolved.
EligibleMembers(cid) ==
    {k \in 1..Len(markets) :
        /\ \E a \in 1..Len(market_clusters) :
              /\ market_clusters[a].cluster_id = cid
              /\ market_clusters[a].market_id = markets[k].id
        /\ dargs.only_resolved => markets[k].resolved_outcome \in {"YES", "NO"}}

\* Cluster cid passes every filter the arguments in dargs enable, on the store
\* as it is.
Eligible(cid) ==
    /\ \E k \in 1..Len(clusters) :
          /\ clusters[k].cluster_id = cid
          /\ dargs.only_labeled => clusters[k].category \notin {"other", ""}
    /\ Cardinality(EligibleMembers(cid)) >= 2
    /\ dargs.skip_clusters_with_relations =>
          \A k \in 1..Len(relations) : relations[k].cluster_id # cid

\* The clusters of the tasks in ts.
TaskClusters(ts) == {ts[t].cluster_id : t \in 1..Len(ts)}

\* C28: the tasks a run builds are of clusters that pass every enabled filter
\* on the store as the run finds it (labeled, two or more member markets in
\* the store that count under only_resolved, no relation row under
\* skip_clusters_with_relations); the tasks are fixed from then on, a request
\* is sent only for a task, and a step that changes the relation rows of a
\* cluster is the write of that cluster's task.
C28_OnlyEligibleClusters ==
    [][/\ dpc = "idle" =>
             /\ relations' = relations
             /\ \A cid \in ClusterIds : cid \in TaskClusters(tasks') => Eligible(cid)'
       /\ dpc # "idle" => tasks' = tasks
       /\ requests' # requests =>
             /\ requests' = requests + 1
             /\ \E t \in 1..Len(tasks) : fut[t].st = "pending" /\ fut'[t].st = "running"
       /\ \A cid \in ClusterIds :
             RowsOfCluster(relations', cid) # RowsOfCluster(relations, cid) =>
                 /\ last'.op = "write_relations_for_cluster"
                 /\ last'.cluster_id = cid
                 /\ \E t \in 1..Len(tasks) :
                       /\ tasks[t].cluster_id = cid
                       /\ fut[t].st = "done"
                       /\ fut'[t].st = "handled"]_vars

\* A run with only_resolved returned: c_0 was asked about and written, and
\* c_1, with one resolved member, got no request and kept its row.
C28_Witness ==
    /\ dpc = "returned"
    /\ dargs.only_resolved
    /\ ~dargs.skip_clusters_with_relations
    /\ requests = 1
    /\ Len(tasks) = 1
    /\ tasks[1].cluster_id = "c_0"
    /\ "c_0" \in DOMAIN results
    /\ results["c_0"] >= 1
    /\ RowsOfCluster(relations, "c_1")
           = << RelRow("c_1", Rel("m3", "m4", "q3", "q4", TRUE, 70, "old")) >>

\* Cluster cid passes the filters other than skip_clusters_with_relations and
\* is among the first max_clusters of those that pass.
PassesOtherFilters(cid) ==
    /\ \E k \in 1..Len(clusters) :
          /\ clusters[k].cluster_id = cid
          /\ dargs.only_labeled => clusters[k].category \notin {"other", ""}
    /\ Cardinality(EligibleMembers(cid)) >= 2
    /\ Len(clusters) <= dargs.max_clusters

HasRelations(cid) == \E k \in 1..Len(relations) : relations[k].cluster_id = cid

\* C29: a run called with skip_clusters_with_relations leaves out exactly the
\* clusters that have a relation row when it is called: of the clusters that
\* pass the other filters, those with a row get no task and those without get
\* one.  The task list is fixed from then on and holds a cluster at most
\* once; every task is taken once, and a task of two or more markets sends its
\* request when a worker takes it, whatever rows its cluster has by then; the
\* run returns only when every task was handled.
C29_SkipSetReadOnce ==
    [][/\ \A cid \in ClusterIds :
             (dpc = "idle" /\ dpc' = "running" /\ PassesOtherFilters(cid)') =>
                 (cid \in TaskClusters(tasks') <=> ~HasRelations(cid))
       /\ dpc # "idle" => tasks' = tasks
       /\ \A a, b \in 1..Len(tasks') : tasks'[a].cluster_id = tasks'[b].cluster_id => a = b
       /\ dpc = "running" =>
             \A t \in 1..Len(tasks) :
                 /\ fut'[t].st # fut[t].st =>
                       <<fut[t].st, fut'[t].st>> \in {<<"pending", "running">>, <<"pending", "done">>,
                                                       <<"running", "done">>, <<"done", "handled">>}
                 /\ (fut[t].st = "pending" /\ fut'[t].st # "pending"
                        /\ Len(tasks[t].m_list) >= 2) =>
                       /\ fut'[t].st = "running"
                       /\ requests' = requests + 1
       /\ (dpc = "running" /\ dpc' = "returned") =>
             \A t \in 1..Len(tasks) : fut[t].st = "handled"]_vars

\* A resumed run found no row for either cluster and built two tasks; the
\* other process has written a row for the second task's cluster since, and
\* the second task's request is out all the same.
C29_Witness ==
    /\ dpc = "running"
    /\ dargs.skip_clusters_with_relations
    /\ dargs.parallel_workers = 1
    /\ Len(tasks) = 2
    /\ fut[1].st = "handled"
    /\ fut[2].st = "running"
    /\ fut[1].relations = <<>>
    /\ RowsOfCluster(relations, tasks[2].cluster_id)
           = << RelRow(tasks[2].cluster_id, Rel("m4", "m3", "q4", "q3", TRUE, 80, "other")) >>

\* The ids of the members of cluster cid that are stored markets and count
\* under only_resolved, in the order of the cluster's assignments.
EligibleMemberIds(cid) ==
    LET mine == SelectSeq(market_clusters,
                    LAMBDA a : /\ a.cluster_id = cid
                               /\ \E k \in 1..Len(markets) :
                                     /\ markets[k].id = a.market_id
                                     /\ dargs.only_resolved =>
                                           markets[k].resolved_outcome \in {"YES", "NO"})
    IN  [k \in 1..Len(mine) |-> mine[k].market_id]

\* The first n elements of s, all of s when it has no more than n.
Prefix(s, n) == [k \in 1..(IF Len(s) < n THEN Len(s) ELSE n) |-> s[k]]

\* C30: when a worker takes the task of a cluster, a request is sent whose
\* markets are the first max_markets_per_cluster of the cluster's eligible
\* members (stored markets, resolved ones only under only_resolved) in the
\* order of the cluster's assignments, and all of them when they are no more
\* than max_markets_per_cluster.
C30_SendsCappedPrefix ==
    [][dpc = "running" =>
          \A t \in 1..Len(tasks) :
              (fut[t].st = "pending" /\ fut'[t].st # "pending") =>
                  /\ fut'[t].st = "running"
                  /\ requests' = requests + 1
                  /\ IdsOf(tasks[t].m_list)
                        = Prefix(EligibleMemberIds(tasks[t].cluster_id),
                                 dargs.max_markets_per_cluster)]_vars

(***************************************************************************)
(* Claims about what a discovery run accepts and records.                  *)
(***************************************************************************)
\* The response is a JSON object whose items all pass validation.
ValidResponse(resp) ==
    /\ resp.kind = "json"
    /\ \A k \in 1..Len(resp.items) :
          resp.items[k].confidence_score \in 0..100

\* C31: the relations a task returns for a valid response are the first
\* max_relations_per_cluster items of the response, in response order, and
\* when the run returns no cluster it wrote has more than
\* max_relations_per_cluster relation rows.
C31_AcceptsCappedPrefix ==
    [][/\ \A t \in 1..Len(fut), resp \in Responses :
             (worker_finish(t, resp) /\ ValidResponse(resp)) =>
                 /\ fut'[t].ok
                 /\ fut'[t].relations = Prefix(resp.items, dargs.max_relations_per_cluster)
       /\ dpc' = "returned" =>
             \A t \in 1..Len(tasks) :
                 ~TaskFailed(t) =>
                     Len(RowsOfCluster(relations', tasks[t].cluster_id))
                         <= dargs.max_relations_per_cluster]_vars

\* A run with max_relations_per_cluster = 1 returned: each of its two
\* clusters was answered validly and has one relation row.
C31_Witness ==
    /\ dpc = "returned"
    /\ dargs.max_relations_per_cluster = 1
    /\ Len(tasks) = 2
    /\ \A t \in 1..2 :
          /\ fut[t].answer = "valid"
          /\ ~TaskFailed(t)
          /\ Len(fut[t].relations) = 1
          /\ Len(RowsOfCluster(relations, tasks[t].cluster_id)) = 1

\* min(max(w, 1), 20)
PoolWidth(w) ==
    LET lo == IF w > 1 THEN w ELSE 1
    IN  IF lo < 20 THEN lo ELSE 20

\* C32: whatever parallel_workers is asked for (0, negative, above 20), the
\* pool is min(max(w, 1), 20) wide and no more tasks than that have a request
\* out at a time; a task is of one cluster and a step moves one task; and a
\* run that dispatched tasks returns, every task handled.
C32_BoundedPool ==
    /\ [](dpc = "running" =>
              /\ dargs.parallel_workers \in 1..20
              /\ Cardinality({t \in 1..Len(fut) : fut[t].st = "running"})
                     <= dargs.parallel_workers)
    /\ [][/\ \A args \in PoolArgs :
                 (run_discover_relations(args) =>
                      dargs'.parallel_workers = PoolWidth(args.parallel_workers))
           /\ dpc = "running" =>
                 Cardinality({t \in 1..Len(fut) : fut'[t] # fut[t]}) <= 1]_vars
    /\ (dpc = "running") ~> (dpc = "returned" /\ \A t \in 1..Len(fut) : fut[t].st = "handled")

\* Asked for 0 or -3 workers, the pool is one wide: one request is out and the
\* other task waits.
C32_Witness ==
    /\ dpc = "running"
    /\ dargs.parallel_workers = 1
    /\ Len(tasks) = 2
    /\ fut[1].st = "running"
    /\ fut[2].st = "pending"
    /\ requests = 1

\* The clusters whose relation rows a step changes.
ClustersChanged == {cid \in ClusterIds : RowsOfCluster(relations', cid) # RowsOfCluster(relations, cid)}

\* C33: during a run the store is written by one write_relations_for_cluster
\* call at a time, each made by the loop over as_completed for one task whose
\* future is done: a step changes the rows of at most one cluster, a write is
\* the write of a task that has returned (its request is not out), no step
\* changes the rows of a cluster whose request is out, and no two tasks are
\* of the same cluster.
C33_WritesSerialized ==
    [][dpc = "running" =>
          /\ Cardinality(ClustersChanged) <= 1
          /\ (last' # last \/ relations' # relations) =>
                /\ last'.op = "write_relations_for_cluster"
                /\ Cardinality({t \in 1..Len(tasks) : fut'[t] # fut[t]}) = 1
                /\ \A t \in 1..Len(tasks) :
                      fut'[t] # fut[t] =>
                          /\ fut[t].st = "done"
                          /\ fut'[t].st = "handled"
                          /\ last'.cluster_id = tasks[t].cluster_id
                          /\ ClustersChanged \subseteq {tasks[t].cluster_id}
          /\ \A t \in 1..Len(tasks) :
                fut[t].st = "running" => tasks[t].cluster_id \notin ClustersChanged
          /\ \A a, b \in 1..Len(tasks) :
                tasks[a].cluster_id = tasks[b].cluster_id => a = b]_vars

\* The loop has just written one cluster's relations while the request of
\* the other cluster is out.
C33_Witness ==
    /\ dpc = "running"
    /\ last.op = "write_relations_for_cluster"
    /\ last.err = "NONE"
    /\ last.n_written >= 1
    /\ \E a, b \in 1..Len(tasks) :
          /\ fut[a].st = "handled"
          /\ last.cluster_id = tasks[a].cluster_id
          /\ fut[b].st = "running"
          /\ RowsOfCluster(relations, tasks[b].cluster_id) = <<>>

\* Every dispatched cluster is a key of results or an entry of
\* failed_clusters, not both, and failed_clusters holds no cluster twice;
\* nothing else is in either.
ResultsPartitionTasks ==
    /\ \A t \in 1..Len(tasks) :
          (tasks[t].cluster_id \in DOMAIN results) # InFailedClusters(tasks[t].cluster_id)
    /\ \A a, b \in 1..Len(failed_clusters) : failed_clusters[a] = failed_clusters[b] => a = b
    /\ DOMAIN results \subseteq TaskClusters(tasks)
    /\ \A k \in 1..Len(failed_clusters) : failed_clusters[k] \in TaskClusters(tasks)

\* C34: when run_discover_relations returns, the keys of the mapping and the
\* entries of failed_clusters partition the dispatched clusters, and completed
\* equals the number of dispatched tasks.
C34_EveryTaskAccounted ==
    dpc = "returned" => (ResultsPartitionTasks /\ completed = Len(tasks))

\* C35: the loop turn for a task whose request raised, was answered with no
\* JSON object or with items that fail validation leaves the relation rows of
\* the task's cluster as they were.
C35_FailedKeepsRows ==
    [][dpc = "running" =>
          \A t \in 1..Len(tasks) :
              (/\ fut[t].st = "done"
               /\ fut'[t].st = "handled"
               /\ fut[t].answer \in {"error", "text", "invalid"}) =>
                  RowsOfCluster(relations', tasks[t].cluster_id)
                      = RowsOfCluster(relations, tasks[t].cluster_id)]_vars

(***************************************************************************)
(* Claims about relations across clusterings and labelings.                *)
(***************************************************************************)
\* C36: when write_clusters has replaced the clusters, no relation row
\* written before it is attributed to a cluster id of the new clustering.
C36_RelationsDieWithClustering ==
    [][(/\ last'.op = "write_clusters"
        /\ last'.err = "NONE"
        /\ last'.n_in > 0
        /\ clusters' # clusters) =>
           \A r \in 1..Len(relations'), c \in 1..Len(clusters') :
               relations'[r].cluster_id # clusters'[c].cluster_id]_vars

\* C37: every relation row of a cluster the run has written pairs two
\* different markets that were both in the m_list sent for the cluster's task.
C37_PairsWithinSentMembers ==
    dpc \in {"running", "returned"} =>
        \A t \in 1..Len(tasks) :
            (fut[t].st = "handled" /\ ~TaskFailed(t)) =>
                \A k \in 1..Len(relations) :
                    relations[k].cluster_id = tasks[t].cluster_id =>
                        /\ relations[k].market_id_i # relations[k].market_id_j
                        /\ \E a, b \in 1..Len(tasks[t].m_list) :
                              /\ tasks[t].m_list[a].id = relations[k].market_id_i
                              /\ tasks[t].m_list[b].id = relations[k].market_id_j

\* C38: a run_label_clusters call in which a label_single_cluster call raises
\* ends by raising and leaves every table as it was, the labels obtained for
\* earlier clusters included; a discovery run that follows it with
\* only_labeled dispatches no cluster whose stored category is "other".
C38_LabelsAllOrNothing ==
    /\ [][\A answers \in [1..MaxLabeled -> LabelAnswers] :
              (/\ run_label_clusters(answers)
               /\ settings.openai_api_key
               /\ \E k \in 1..Len(ClustersToLabel) :
                     /\ SampleQuestions(ClustersToLabel[k]) # {}
                     /\ answers[k].kind = "error") =>
                  /\ outcomes' = Append(outcomes, "raised")
                  /\ UNCHANGED <<dbExists, markets, clusters, market_clusters, relations>>]_vars
    /\ []((/\ Len(outcomes) >= 5
           /\ outcomes[5] = "raised"
           /\ dpc \in {"running", "returned"}) =>
              \A t \in 1..Len(tasks), k \in 1..Len(clusters) :
                  clusters[k].cluster_id = tasks[t].cluster_id =>
                      clusters[k].category \notin {"other", ""})

\* The label stage asked about two new clusters and raised on the second:
\* both are still "other", the first one's label was not stored, and the
\* discovery run that followed dispatched nothing.
C38_Witness ==
    /\ settings.openai_api_key
    /\ Len(outcomes) >= 5
    /\ outcomes[4] = "returned"
    /\ outcomes[5] = "raised"
    /\ requests = 2
    /\ Len(clusters) = 2
    /\ \A k \in 1..Len(clusters) : clusters[k].category = "other"
    /\ dpc = "returned"
    /\ tasks = <<>>

\* The step is the call of a second run with skip_clusters_with_relations and
\* otherwise the first run's arguments, the first run having returned with
\* failed_clusters empty.
SecondRunAfterSuccess ==
    /\ dpc = "idle"
    /\ calls = 1
    /\ failed_clusters = <<>>
    /\ dpc' = "running"
    /\ dargs'.skip_clusters_with_relations
    /\ dargs' = [dargs EXCEPT !.skip_clusters_with_relations = TRUE]

\* C39 as stated: a run right after a run in which no dispatched cluster
\* failed, with skip_clusters_with_relations and the same other arguments on
\* the store as the first run left it, dispatches no cluster.
C39_Original ==
    [][SecondRunAfterSuccess => (tasks' = <<>> /\ results' = NoResults)]_vars

\* C39 amended: a run right after a run in which no dispatched cluster failed
\* and every dispatched cluster was left with at least one relation row, with
\* skip_clusters_with_relations and the same other arguments on the store as
\* the first run left it, dispatches no cluster, sends no request and returns
\* the empty mapping.
C39_ConvergesWhenRowsWritten ==
    /\ [][(/\ SecondRunAfterSuccess
            /\ \A t \in 1..Len(tasks) : HasRelations(tasks[t].cluster_id)) =>
               (tasks' = <<>> /\ results' = NoResults)]_vars
    /\ []((calls = 1 /\ dpc \in {"running", "returned"} /\ tasks = <<>>) =>
              (DOMAIN results = {} /\ fut = <<>>))
    /\ [][(calls = 1 /\ dpc = "running" /\ tasks = <<>>) => requests' = requests]_vars

\* The first run wrote a relation for each of two clusters; the second run,
\* called with skip_clusters_with_relations, has returned the empty mapping
\* and sent no request of its own.
C39_Witness ==
    /\ calls = 1
    /\ dpc = "returned"
    /\ dargs.skip_clusters_with_relations
    /\ tasks = <<>>
    /\ DOMAIN results = {}
    /\ requests = 2
    /\ HasRelations("c_0")
    /\ HasRelations("c_1")

(***************************************************************************)
(* Claims about the consistency of an evaluation result.                   *)
(***************************************************************************)
\* The sum of the counts correct of the buckets of a breakdown.
RECURSIVE SumCorrect(_)
SumCorrect(f) ==
    IF DOMAIN f = {} THEN 0
    ELSE LET x == CHOOSE y \in DOMAIN f : TRUE
         IN  f[x].correct + SumCorrect([y \in DOMAIN f \ {x} |-> f[y]])

\* Every bucket of the breakdown counts at least one relation and no more
\* correct ones than relations.
BucketsSound(f) == \A x \in DOMAIN f : 1 <= f[x].n /\ 0 <= f[x].correct /\ f[x].correct <= f[x].n

\* C40: the EvalResult returned by run_evaluate_relations has total_correct <=
\* total_evaluable <= total_relations, total_relations the number of stored
\* relation rows, the counts n of by_cluster and of by_confidence_bucket each
\* summing to total_evaluable, the counts correct of each summing to
\* total_correct, every bucket with 1 <= n and correct <= n; and the call
\* changes nothing in the store.
C40_ResultConsistent ==
    /\ [](result # <<>> =>
            /\ result[1].total_correct <= result[1].total_evaluable
            /\ result[1].total_evaluable <= result[1].total_relations
            /\ result[1].total_relations = Len(relations)
            /\ SumN(result[1].by_cluster) = result[1].total_evaluable
            /\ SumN(result[1].by_confidence_bucket) = result[1].total_evaluable
            /\ SumCorrect(result[1].by_cluster) = result[1].total_correct
            /\ SumCorrect(result[1].by_confidence_bucket) = result[1].total_correct
            /\ BucketsSound(result[1].by_cluster)
            /\ BucketsSound(result[1].by_confidence_bucket))
    /\ [][calls' # calls => storeVars' = storeVars]_vars

\* A store of four rows evaluated with minimum 0: three are evaluable, two of
\* them correct, in two clusters and in two confidence buckets.
C40_Witness ==
    /\ result # <<>>
    /\ dbExists
    /\ settings.eval_min_confidence = 0
    /\ result[1].total_relations = 4
    /\ result[1].total_evaluable = 3
    /\ result[1].total_correct = 2
    /\ Cardinality(DOMAIN result[1].by_cluster) = 2
    /\ Cardinality(DOMAIN result[1].by_confidence_bucket) = 2

====
